---- MODULE Spec2Model ----
(***************************************************************************)
(* A model of npmmirs: the range cache (src/src/range_cache.rs), the       *)
(* metadata cache (src/src/meta_cache.rs), the download worker pool        *)
(* (src/src/downloader.rs), the progress counters (src/src/progress.rs)    *)
(* and the three-phase orchestrator (src/src/mirror.rs).                   *)
(*                                                                         *)
(* Each component has its own variables and its own specification; a       *)
(* specification leaves the other components' variables unchanged.         *)
(***************************************************************************)
EXTENDS Integers, Sequences, FiniteSets, TLC

(***************************************************************************)
(* Bounds of the model.                                                    *)
(***************************************************************************)
\* package names are 1..NumPkgs
NumPkgs == 1
\* versions are 0..MaxVer, totally ordered by <=
MaxVer == 1
\* concurrent callers of the range cache
NumProcs == 2
\* calls made on the range cache in one behaviour
MaxCalls == 2

Pkgs == 1..NumPkgs
Versions == 0..MaxVer
Procs == 1..NumProcs

(***************************************************************************)
(* nodejs_semver::Range, as a closed interval of versions.  The crate is   *)
(* external; its interface is range.satisfies(v) and a.allows_all(b), the  *)
(* superset test (a admits every version b admits).                        *)
(***************************************************************************)
Range == {r \in [lo : Versions, hi : Versions] : r.lo <= r.hi}

Satisfies(r, v) == r.lo <= v /\ v <= r.hi

AllowsAll(a, b) == a.lo <= b.lo /\ b.hi <= a.hi

\* Ranges::satisfies
RangesSatisfies(inner, v) == \E i \in 1..Len(inner) : Satisfies(inner[i], v)

(***************************************************************************)
(* PackageRangeCache (range_cache.rs).  versions and removed sit behind    *)
(* two separate RwLocks; each lock acquisition of a method is one atomic   *)
(* step of the calling task.                                               *)
(***************************************************************************)
VARIABLES
    versions,        \* HashMap<package, Ranges>: a function on the present keys
    removed,         \* HashSet<package>: the tombstones
    rcPc,            \* per caller: where it is in the method it is running
    rcArg,           \* per caller: the arguments of the running call (NoArg when idle)
    rcRes,           \* per caller: the value its last call returned
    rcCalls,         \* number of calls made so far
    rcInserted,      \* history: per package, the ranges of completed insert calls
    rcRemoveCalled,  \* history: packages remove was ever called for
    rcNewCount       \* history: per package, how often package_is_new=true was returned

rcVars == <<versions, removed, rcPc, rcArg, rcRes, rcCalls, rcInserted,
            rcRemoveCalled, rcNewCount>>

NoArg == [op |-> "none", pkg |-> 0, range |-> [lo |-> 0, hi |-> 0], ver |-> 0,
          after |-> FALSE]
NoRes == [op |-> "none", after |-> FALSE,
          package_is_new |-> FALSE, range_is_new |-> FALSE, sat |-> FALSE]

RangeCacheResult(arg, pnew, rnew) ==
    [op |-> "insert", after |-> arg.after,
     package_is_new |-> pnew, range_is_new |-> rnew, sat |-> FALSE]

SatResult(arg, b) ==
    [op |-> "satisfies", after |-> arg.after,
     package_is_new |-> FALSE, range_is_new |-> FALSE, sat |-> b]

InitRC ==
    /\ versions = <<>>
    /\ removed = {}
    /\ rcPc = [p \in Procs |-> "idle"]
    /\ rcArg = [p \in Procs |-> NoArg]
    /\ rcRes = [p \in Procs |-> NoRes]
    /\ rcCalls = 0
    /\ rcInserted = [k \in Pkgs |-> {}]
    /\ rcRemoveCalled = {}
    /\ rcNewCount = [k \in Pkgs |-> 0]

\* the map without the key
MapRemove(map, pkg) == [k \in DOMAIN map \ {pkg} |-> map[k]]

\* the dominance test with receiver and argument exchanged
DominatedFlipped(map, pkg, new_range) ==
    /\ pkg \in DOMAIN map
    /\ \E i \in 1..Len(map[pkg]) : AllowsAll(map[pkg][i], new_range)

\* the read-phase test of insert: some accumulated range is allowed by new_range
Dominated(map, pkg, new_range) ==
    /\ pkg \in DOMAIN map
    /\ \E i \in 1..Len(map[pkg]) : AllowsAll(new_range, map[pkg][i])

\* a write phase that never looks the key up again
InsertWriteNoLookup(map, pkg, new_range) ==
    [map |-> [k \in DOMAIN map \cup {pkg} |->
                 IF k = pkg THEN <<new_range>> ELSE map[k]],
     package_is_new |-> TRUE, range_is_new |-> TRUE]

\* the write phase of insert: push on the present list, or create the list
InsertWrite(map, pkg, new_range) ==
    IF pkg \in DOMAIN map
    THEN [map |-> [map EXCEPT ![pkg] = Append(@, new_range)],
          package_is_new |-> FALSE, range_is_new |-> TRUE]
    ELSE [map |-> (pkg :> <<new_range>>) @@ map,
          package_is_new |-> TRUE, range_is_new |-> TRUE]

\* an insert that skips the tombstone test
InsertTombstonedNever(rem, pkg) == FALSE

\* the tombstone test of insert
InsertTombstoned(rem, pkg) == pkg \in rem

\* a caller returns from insert
InsertReturn(p, pnew, rnew) ==
    /\ rcPc' = [rcPc EXCEPT ![p] = "idle"]
    /\ rcArg' = [rcArg EXCEPT ![p] = NoArg]
    /\ rcRes' = [rcRes EXCEPT ![p] = RangeCacheResult(rcArg[p], pnew, rnew)]
    /\ rcInserted' = [rcInserted EXCEPT ![rcArg[p].pkg] = @ \cup {rcArg[p].range}]
    /\ rcNewCount' = [rcNewCount EXCEPT ![rcArg[p].pkg] = @ + (IF pnew THEN 1 ELSE 0)]

CallInsert(p, pkg, r) ==
    /\ rcPc[p] = "idle"
    /\ rcCalls < MaxCalls
    /\ rcCalls' = rcCalls + 1
    /\ rcPc' = [rcPc EXCEPT ![p] = "ins_removed"]
    /\ rcArg' = [rcArg EXCEPT ![p] = [op |-> "insert", pkg |-> pkg, range |-> r,
                                     ver |-> 0, after |-> pkg \in removed]]
    /\ UNCHANGED <<versions, removed, rcRes, rcInserted, rcRemoveCalled, rcNewCount>>

InsertRemovedCheck(p) ==
    /\ rcPc[p] = "ins_removed"
    /\ IF InsertTombstoned(removed, rcArg[p].pkg)
       THEN InsertReturn(p, FALSE, FALSE)
       ELSE /\ rcPc' = [rcPc EXCEPT ![p] = "ins_check"]
            /\ UNCHANGED <<rcArg, rcRes, rcInserted, rcNewCount>>
    /\ UNCHANGED <<versions, removed, rcCalls, rcRemoveCalled>>

InsertDominanceCheck(p) ==
    /\ rcPc[p] = "ins_check"
    /\ IF Dominated(versions, rcArg[p].pkg, rcArg[p].range)
       THEN InsertReturn(p, FALSE, FALSE)
       ELSE /\ rcPc' = [rcPc EXCEPT ![p] = "ins_write"]
            /\ UNCHANGED <<rcArg, rcRes, rcInserted, rcNewCount>>
    /\ UNCHANGED <<versions, removed, rcCalls, rcRemoveCalled>>

\* a write phase that pushes nothing on a list that is already there
InsertWriteStepNoPush(p) ==
    /\ rcPc[p] = "ins_write"
    /\ LET w == InsertWrite(versions, rcArg[p].pkg, rcArg[p].range) IN
         /\ versions' = IF rcArg[p].pkg \in DOMAIN versions THEN versions ELSE w.map
         /\ InsertReturn(p, w.package_is_new, w.range_is_new)
    /\ UNCHANGED <<removed, rcCalls, rcRemoveCalled>>

\* the write phase of insert, under the write lock
InsertWriteStep(p) ==
    /\ rcPc[p] = "ins_write"
    /\ LET w == InsertWrite(versions, rcArg[p].pkg, rcArg[p].range) IN
         /\ versions' = w.map
         /\ InsertReturn(p, w.package_is_new, w.range_is_new)
    /\ UNCHANGED <<removed, rcCalls, rcRemoveCalled>>

CallRemove(p, pkg) ==
    /\ rcPc[p] = "idle"
    /\ rcCalls < MaxCalls
    /\ rcCalls' = rcCalls + 1
    /\ rcPc' = [rcPc EXCEPT ![p] = "rem_versions"]
    /\ rcArg' = [rcArg EXCEPT ![p] = [NoArg EXCEPT !.op = "remove", !.pkg = pkg,
                                                   !.after = pkg \in removed]]
    /\ rcRemoveCalled' = rcRemoveCalled \cup {pkg}
    /\ UNCHANGED <<versions, removed, rcRes, rcInserted, rcNewCount>>

RemoveVersions(p) ==
    /\ rcPc[p] = "rem_versions"
    /\ versions' = MapRemove(versions, rcArg[p].pkg)
    /\ rcPc' = [rcPc EXCEPT ![p] = "rem_removed"]
    /\ UNCHANGED <<removed, rcArg, rcRes, rcCalls, rcInserted, rcRemoveCalled, rcNewCount>>

RemoveRemoved(p) ==
    /\ rcPc[p] = "rem_removed"
    /\ removed' = removed \cup {rcArg[p].pkg}
    /\ rcPc' = [rcPc EXCEPT ![p] = "idle"]
    /\ rcRes' = [rcRes EXCEPT ![p] = [NoRes EXCEPT !.op = "remove"]]
    /\ rcArg' = [rcArg EXCEPT ![p] = NoArg]
    /\ UNCHANGED <<versions, rcCalls, rcInserted, rcRemoveCalled, rcNewCount>>

CallSatisfies(p, pkg, v) ==
    /\ rcPc[p] = "idle"
    /\ rcCalls < MaxCalls
    /\ rcCalls' = rcCalls + 1
    /\ rcPc' = [rcPc EXCEPT ![p] = "sat_removed"]
    /\ rcArg' = [rcArg EXCEPT ![p] = [NoArg EXCEPT !.op = "satisfies", !.pkg = pkg,
                                                   !.ver = v, !.after = pkg \in removed]]
    /\ UNCHANGED <<versions, removed, rcRes, rcInserted, rcRemoveCalled, rcNewCount>>

SatisfiesRemovedCheck(p) ==
    /\ rcPc[p] = "sat_removed"
    /\ IF rcArg[p].pkg \in removed
       THEN /\ rcPc' = [rcPc EXCEPT ![p] = "idle"]
            /\ rcRes' = [rcRes EXCEPT ![p] = SatResult(rcArg[p], FALSE)]
            /\ rcArg' = [rcArg EXCEPT ![p] = NoArg]
       ELSE /\ rcPc' = [rcPc EXCEPT ![p] = "sat_versions"]
            /\ UNCHANGED <<rcArg, rcRes>>
    /\ UNCHANGED <<versions, removed, rcCalls, rcInserted, rcRemoveCalled, rcNewCount>>

SatisfiesVersions(p) ==
    /\ rcPc[p] = "sat_versions"
    /\ rcPc' = [rcPc EXCEPT ![p] = "idle"]
    /\ rcRes' = [rcRes EXCEPT ![p] =
                   SatResult(rcArg[p],
                             /\ rcArg[p].pkg \in DOMAIN versions
                             /\ RangesSatisfies(versions[rcArg[p].pkg], rcArg[p].ver))]
    /\ rcArg' = [rcArg EXCEPT ![p] = NoArg]
    /\ UNCHANGED <<versions, removed, rcCalls, rcInserted, rcRemoveCalled, rcNewCount>>

\* one lock-protected step of a running call
RcStep(p) ==
    \/ InsertRemovedCheck(p)
    \/ InsertDominanceCheck(p)
    \/ InsertWriteStep(p)
    \/ RemoveVersions(p)
    \/ RemoveRemoved(p)
    \/ SatisfiesRemovedCheck(p)
    \/ SatisfiesVersions(p)

\* a caller starts a call
RcCall(p) ==
    \/ \E pkg \in Pkgs, r \in Range : CallInsert(p, pkg, r)
    \/ \E pkg \in Pkgs : CallRemove(p, pkg)
    \/ \E pkg \in Pkgs, v \in Versions : CallSatisfies(p, pkg, v)

AllIdle == \A p \in Procs : rcPc[p] = "idle"

(***************************************************************************)
(* MetaCache (meta_cache.rs): one byte vector and a map from package to    *)
(* (pos, len).  It sits behind one RwLock and insert takes &mut self, so   *)
(* an insert is one atomic step.                                           *)
(***************************************************************************)
\* keys of the cache are 1..NumKeys
NumKeys == 3
\* blobs handed to insert have 1..MaxBlobLen bytes
MaxBlobLen == 1
\* insert calls in one behaviour
MaxMetaInserts == 3

Keys == 1..NumKeys
Bytes == {0, 1}
Blobs == UNION {[1..n -> Bytes] : n \in 1..MaxBlobLen}

VARIABLES
    mcData,     \* MetaCache.data: Vec<u8>
    mcPosMap,   \* MetaCache.pos_map: a function on the present keys to <<pos, len>>
    mcLast,     \* the last insert call: its arguments and the value it returned
    mcCalls,    \* number of insert calls made so far
    mcFirst     \* history: per key, the blob of the first insert call for it

mcVars == <<mcData, mcPosMap, mcLast, mcCalls, mcFirst>>

InitMC ==
    /\ mcData = <<>>
    /\ mcPosMap = <<>>
    /\ mcLast = [pkg |-> 0, blob |-> <<>>, ret |-> FALSE]
    /\ mcCalls = 0
    /\ mcFirst = <<>>

\* the bytes get hands to the decoder: data[pos..pos+len]
MetaCacheSlice(pos_map, data, pkg) ==
    SubSeq(data, pos_map[pkg][1] + 1, pos_map[pkg][1] + pos_map[pkg][2])

\* an insert without the contains_key test
MetaCacheInsertOverwrite(pos_map, data, pkg, blob) ==
    [pos_map |-> [k \in DOMAIN pos_map \cup {pkg} |->
                     IF k = pkg THEN <<Len(data), Len(blob)>> ELSE pos_map[k]],
     data |-> data \o blob,
     ret |-> TRUE]

\* MetaCache::insert
MetaCacheInsert(pos_map, data, pkg, blob) ==
    IF pkg \in DOMAIN pos_map
    THEN [pos_map |-> pos_map, data |-> data, ret |-> FALSE]
    ELSE [pos_map |-> (pkg :> <<Len(data), Len(blob)>>) @@ pos_map,
          data |-> data \o blob,
          ret |-> TRUE]

\* a task calls insert under the write lock
MetaInsert(pkg, blob) ==
    /\ mcCalls < MaxMetaInserts
    /\ mcCalls' = mcCalls + 1
    /\ LET r == MetaCacheInsert(mcPosMap, mcData, pkg, blob) IN
         /\ mcPosMap' = r.pos_map
         /\ mcData' = r.data
         /\ mcLast' = [pkg |-> pkg, blob |-> blob, ret |-> r.ret]
    /\ mcFirst' = IF pkg \in DOMAIN mcFirst THEN mcFirst ELSE (pkg :> blob) @@ mcFirst

(***************************************************************************)
(* Progress counters (progress.rs): SeqCst atomics, one step per access.   *)
(***************************************************************************)
VARIABLES
    files,      \* Progress.files: total, success, skipped, failed
    bytes,      \* Progress.bytes: total, success (skipped and failed are never touched)
    step,       \* Progress.step
    total_bytes \* Progress.total_bytes

prVars == <<files, bytes, step, total_bytes>>

\* ProgressPart::new
ProgressPartNew == [total |-> 0, success |-> 0, skipped |-> 0, failed |-> 0]

InitProgress ==
    /\ files = ProgressPartNew
    /\ bytes = ProgressPartNew
    /\ step = 0
    /\ total_bytes = 0

\* ProgressPart::remaining, as a mathematical integer: a negative value stands
\* for the wrapped u64 (or, with overflow checks, the panic) of the subtraction
Remaining(part) == part.total - part.success - part.skipped - part.failed

(***************************************************************************)
(* The downloader (downloader.rs): a bounded channel of Download requests  *)
(* and the worker tasks that receive from it.                              *)
(*                                                                         *)
(* Environment: HTTP header values are visible ASCII (HeaderValue::to_str  *)
(* succeeds), and no two requests being handled at the same time name the  *)
(* same target: a handler runs as one step.  Every operation a handler     *)
(* propagates with `?` may fail.                                           *)
(***************************************************************************)
\* capacity of the channel in the model (the program's is 1024)
QueueCap == 1
\* worker tasks (opts.dl_threads)
NumWorkers == 2
\* queue() calls in one behaviour of the downloader on its own
MaxReqs == 2
\* a caller of the downloader on its own asks for tarball paths 1..NumPaths
NumPaths == 1
\* and for the metadata of packages 1..NumDlPkgs
NumDlPkgs == 1
\* a response body has 0..MaxChunks chunks, each of one byte
MaxChunks == 1
\* digests are 0..DigestMod-1
DigestMod == 2

Workers == 1..NumWorkers
Paths == 1..NumPaths
DlPkgs == 1..NumDlPkgs
\* the tarball target paths on disk: one per package and version
AllPaths == 1..(NumKeys * (MaxVer + 1))
Digests == 0..(DigestMod - 1)
Bodies == UNION {[1..n -> Bytes] : n \in 0..MaxChunks}
Etags == {"e1", "e2"}

\* Option<Checksum>
NoChecksum == [some |-> FALSE, digest |-> 0]
SomeChecksum(d) == [some |-> TRUE, digest |-> d]

\* Download::Metadata and Download::Tarball; `step` is the history of the
\* value of Progress.step when the request was queued
MetadataReq(pkg, st) ==
    [kind |-> "Metadata", pkg |-> pkg, path |-> 0, checksum |-> NoChecksum, step |-> st]
TarballReq(path, cs, st) ==
    [kind |-> "Tarball", pkg |-> 0, path |-> path, checksum |-> cs, step |-> st]

\* Sha512Hasher::new, Hasher::consume, Hasher::compute: a deterministic digest
\* of the bytes in the order consumed
HasherNew == 0
HasherConsume(h, chunk) == (h + chunk + 1) % DigestMod
HasherCompute(h) == h

RECURSIVE HashAll(_, _)
HashAll(h, data) ==
    IF data = <<>> THEN h ELSE HashAll(HasherConsume(h, Head(data)), Tail(data))

\* the digest of a file's content
Digest(data) == HasherCompute(HashAll(HasherNew, data))

\* a file on disk
Absent == [exists |-> FALSE, data |-> <<>>]
FileOf(data) == [exists |-> TRUE, data |-> data]

VARIABLES
    queue,      \* the channel: requests sent and not yet received
    wkPc,       \* per worker: "recv" (awaiting recv), "busy" (in download_and_track), "dead"
    wkReq,      \* per worker: the request it is handling
    wkLast,     \* per worker: the request it handled last, how the handler ended, what
                \* download_and_track returned, and the history of that run
    tarFile,    \* disk: per tarball target path, the file
    etagFile,   \* disk: per package directory, the ETag-named documents present
    indexJson,  \* disk: per package directory, index.json: "none", "file", "link", or
                \* "junk" for a regular file whose content is not a JSON document
    linkTo,     \* disk: per package directory, the target of the index.json symlink
    idxFile,    \* disk: per package directory, index.json.idx
    pdPc,       \* a caller of Downloader::queue: "idle", or "send" (blocked in send)
    pdReq,      \* the request that caller is sending
    pdCount     \* number of queue() calls made by that caller

dlVars == <<queue, wkPc, wkReq, wkLast, tarFile, etagFile, indexJson, linkTo, idxFile>>
pdVars == <<pdPc, pdReq, pdCount>>

NoReq == [kind |-> "none", pkg |-> 0, path |-> 0, checksum |-> NoChecksum, step |-> 0]

NoLast ==
    [req |-> NoReq, out |-> "none", ret |-> "none", streamed |-> <<>>, got |-> NoChecksum,
     head |-> "none", get |-> FALSE]

InitDL ==
    /\ queue = <<>>
    /\ wkPc = [w \in Workers |-> "recv"]
    /\ wkReq = [w \in Workers |-> NoReq]
    /\ wkLast = [w \in Workers |-> NoLast]
    /\ tarFile = [p \in AllPaths |-> Absent]
    /\ etagFile = [k \in Keys |-> {}]
    /\ indexJson = [k \in Keys |-> "none"]
    /\ linkTo = [k \in Keys |-> "e1"]
    /\ idxFile = [k \in Keys |-> Absent]
    /\ pdPc = "idle"
    /\ pdReq = NoReq
    /\ pdCount = 0

(***************************************************************************)
(* download_tarball.  The environment of one run: which operation fails    *)
(* (`fail`), the response (`status`, `clen`, `body`), how many chunks were *)
(* streamed before a failing chunk()/write_all (`n`), and how much of what *)
(* was written had left the BufWriter when it is dropped unflushed         *)
(* (`kept`).                                                               *)
(***************************************************************************)
TarballEnv ==
    {[fail |-> f, status |-> 200, clen |-> "none", body |-> <<>>, n |-> 0, kept |-> 0] :
        f \in {"send", "mkdir", "create"}}
    \cup
    {[fail |-> "none", status |-> st, clen |-> "none", body |-> <<>>, n |-> 0, kept |-> 0] :
        st \in {404, 500}}
    \cup
    {[fail |-> "none", status |-> 200, clen |-> "bad", body |-> <<>>, n |-> 0, kept |-> 0]}
    \cup
    {[fail |-> f, status |-> 200, clen |-> c, body |-> b, n |-> n, kept |-> k] :
        f \in {"chunk", "write"}, c \in {"none", "ok"}, b \in Bodies,
        n \in 0..MaxChunks, k \in 0..MaxChunks}
    \cup
    {[fail |-> f, status |-> 200, clen |-> c, body |-> b, n |-> Len(b), kept |-> k] :
        f \in {"none", "remove", "flush"}, c \in {"none", "ok"}, b \in Bodies,
        k \in 0..MaxChunks}

\* what a handler run leaves: its result, the file, the byte counts it added,
\* and as history the bytes it took from the response and the value of
\* hasher.compute() if it got that far
TarballRun(out, file, btotal, bsuccess, streamed, got) ==
    [out |-> out, file |-> file, btotal |-> btotal, bsuccess |-> bsuccess,
     streamed |-> streamed, got |-> got]

\* the comparison of the computed digest with the expected one, left out
ChecksumMismatchNever(checksum, body) == FALSE

\* expected_checksum != hasher.compute() after the whole body was consumed
ChecksumMismatch(checksum, body) ==
    checksum.some /\ HasherCompute(HashAll(HasherNew, body)) # checksum.digest

\* a handler that never finds its target
TargetExistsNever(file) == FALSE

\* target_path.exists()
TargetExists(file) == file.exists

\* download_tarball
DownloadTarball(req, e, file) ==
    LET bt == IF e.clen = "ok" THEN Len(e.body) ELSE 0
        part == FileOf(SubSeq(e.body, 1, e.kept))
        some == SubSeq(e.body, 1, e.n)
        got == IF req.checksum.some
               THEN SomeChecksum(HasherCompute(HashAll(HasherNew, e.body)))
               ELSE NoChecksum
    IN
    IF TargetExists(file) THEN TarballRun("OkFalse", file, 0, 0, <<>>, NoChecksum)
    ELSE IF e.fail = "send" THEN TarballRun("Reqwest", file, 0, 0, <<>>, NoChecksum)
    ELSE IF e.status # 200 THEN
        TarballRun(IF e.status = 404 THEN "Download404" ELSE "DownloadOther", file, 0, 0,
                   <<>>, NoChecksum)
    ELSE IF e.fail \in {"mkdir", "create"} THEN TarballRun("Io", file, 0, 0, <<>>, NoChecksum)
    ELSE IF e.clen = "bad" THEN TarballRun("ParseInt", FileOf(<<>>), 0, 0, <<>>, NoChecksum)
    ELSE IF e.fail = "chunk" THEN TarballRun("Reqwest", part, bt, e.n, some, NoChecksum)
    ELSE IF e.fail = "write" THEN TarballRun("Io", part, bt, e.n, some, NoChecksum)
    ELSE IF ChecksumMismatch(req.checksum, e.body) THEN
        IF e.fail = "remove" THEN TarballRun("Io", part, bt, Len(e.body), e.body, got)
        ELSE TarballRun("Checksum", Absent, bt, Len(e.body), e.body, got)
    ELSE IF e.fail = "flush" THEN TarballRun("Io", part, bt, Len(e.body), e.body, got)
    ELSE TarballRun("OkTrue", FileOf(e.body), bt, Len(e.body), e.body, got)

\* an environment whose fields fit together: a stream fails within the body,
\* and no more is on disk than was written
TarballEnvOk(e) ==
    /\ e.n <= Len(e.body)
    /\ e.kept <= e.n
    /\ e.fail = "write" => e.n < Len(e.body)

(***************************************************************************)
(* download_metadata.  The environment of one run: the HEAD response       *)
(* (`head`: "fail" for a transport error or a non-success status,          *)
(* "noetag", or the ETag), which operation fails (`fail`), the GET         *)
(* response (`status`, `etag`, `clen`, `size` chunks carrying revision     *)
(* `rev`), the chunks streamed before a failing chunk() (`n`), and whether *)
(* a failing write left anything behind (`kept`).                          *)
(***************************************************************************)
\* the revisions of a package's metadata document the registry may serve
Revs == Bytes

MkMetaEnv(head, fail, status, etag, clen, size, n, rev, kept) ==
    [head |-> head, fail |-> fail, status |-> status, etag |-> etag, clen |-> clen,
     size |-> size, n |-> n, rev |-> rev, kept |-> kept]

\* the HEAD responses after which the GET may follow
FetchHeads == {"noetag"} \cup Etags

MetadataEnv ==
    {MkMetaEnv(h, f, 200, "none", "none", 1, 0, 0, 0) :
        h \in {"fail"} \cup Etags, f \in {"none", "idxopen"}}
    \cup
    {MkMetaEnv(h, f, 200, "none", "none", 1, 0, 0, 0) :
        h \in FetchHeads, f \in {"send", "mkdir"}}
    \cup
    {MkMetaEnv(h, "none", st, "none", "none", 1, 0, 0, 0) :
        h \in FetchHeads, st \in {404, 500}}
    \cup
    {MkMetaEnv(h, "none", 200, "none", "bad", 1, 0, 0, 0) : h \in FetchHeads}
    \cup
    {MkMetaEnv(h, "chunk", 200, "none", c, z, n, 0, 0) :
        h \in FetchHeads, c \in {"none", "ok"}, z \in 1..MaxChunks, n \in 0..MaxChunks}
    \cup
    {MkMetaEnv(h, f, 200, t, c, z, z, d, 0) :
        h \in FetchHeads, f \in {"none", "parse", "bitcode", "idxcreate"},
        t \in {"none"} \cup Etags, c \in {"none", "ok"}, z \in 1..MaxChunks, d \in Revs}
    \cup
    {MkMetaEnv(h, f, 200, t, c, z, z, d, 0) :
        h \in FetchHeads, f \in {"readlink", "rmold", "rmindex", "symlink"},
        t \in Etags, c \in {"none", "ok"}, z \in 1..MaxChunks, d \in Revs}
    \cup
    {MkMetaEnv(h, f, 200, t, c, z, z, d, k) :
        h \in FetchHeads, f \in {"write", "idxwrite"},
        t \in {"none"} \cup Etags, c \in {"none", "ok"}, z \in 1..MaxChunks, d \in Revs,
        k \in 0..1}

MetadataEnvOk(e) == e.n <= e.size

\* the part of the disk and of the MetaCache one run works on
DirOf(pkg) ==
    [etags |-> etagFile[pkg], index |-> indexJson[pkg], link |-> linkTo[pkg],
     idx |-> idxFile[pkg], pos_map |-> mcPosMap, data |-> mcData]

MetadataRun(out, dir, btotal, bsuccess) ==
    [out |-> out, dir |-> dir, btotal |-> btotal, bsuccess |-> bsuccess]

\* needs_downloading without the test for the ETag's file
NeedsDownloadingNoEtagTest(e, dir) ==
    IF e.head = "fail" THEN FALSE
    ELSE TRUE

\* needs_downloading
NeedsDownloading(e, dir) ==
    IF e.head = "fail" THEN FALSE
    ELSE IF e.head = "noetag" THEN TRUE
    ELSE e.head \notin dir.etags

\* sparse_metadata of the response: the registry serves the document of the
\* package asked for, so its `name` is that package
SparseMetadata(req, e) == [name |-> req.pkg, rev |-> e.rev]

\* the blob write_package_idx builds for a document: an encoding that tells
\* documents apart
IdxBlob(doc) == <<doc.name, doc.rev>>

\* tokio::fs::write(&real_target_path, ..): index.json itself when the response
\* has no ETag (a symlink is followed), the ETag-named file otherwise
WriteDocument(e, dir) ==
    IF e.etag # "none" THEN [dir EXCEPT !.etags = @ \cup {e.etag}]
    ELSE IF dir.index = "link" THEN [dir EXCEPT !.etags = @ \cup {dir.link}]
    ELSE [dir EXCEPT !.index = "file"]

\* write_package_idx up to and including the MetaCache insert
IdxCacheInsert(doc, dir) ==
    LET r == MetaCacheInsert(dir.pos_map, dir.data, doc.name, IdxBlob(doc))
    IN [dir EXCEPT !.pos_map = r.pos_map, !.data = r.data]

\* the ETag tail of download_metadata, from read_link on; the old target is
\* removed by its bare file name, which names nothing in the package directory
SwapSymlink(e, dir, bt) ==
    IF e.fail = "readlink" \/ dir.index \in {"file", "junk"}
    THEN MetadataRun("Io", dir, bt, e.size)
    ELSE IF dir.index = "link" /\ e.fail = "rmold" THEN MetadataRun("Io", dir, bt, e.size)
    ELSE IF e.fail = "rmindex" THEN MetadataRun("Io", dir, bt, e.size)
    ELSE IF e.fail = "symlink" THEN
        MetadataRun("Io", [dir EXCEPT !.index = "none"], bt, e.size)
    ELSE MetadataRun("OkTrue", [dir EXCEPT !.index = "link", !.link = e.etag], bt, e.size)

\* the download branch of download_metadata
FetchMetadata(req, e, dir) ==
    LET bt == IF e.clen = "ok" THEN e.size ELSE 0
        written == IF e.fail = "write" /\ e.kept = 0 THEN dir ELSE WriteDocument(e, dir)
        doc == SparseMetadata(req, e)
        cached == IdxCacheInsert(doc, written)
        idx1 == [cached EXCEPT !.idx = FileOf(SubSeq(IdxBlob(doc), 1, e.kept))]
        idx2 == [cached EXCEPT !.idx = FileOf(IdxBlob(doc))]
    IN
    IF e.fail = "send" THEN MetadataRun("Reqwest", dir, 0, 0)
    ELSE IF e.status # 200 THEN
        MetadataRun(IF e.status = 404 THEN "Download404" ELSE "DownloadOther", dir, 0, 0)
    ELSE IF e.fail = "mkdir" THEN MetadataRun("Io", dir, 0, 0)
    ELSE IF e.clen = "bad" THEN MetadataRun("ParseInt", dir, 0, 0)
    ELSE IF e.fail = "chunk" THEN MetadataRun("Reqwest", dir, bt, e.n)
    ELSE IF e.fail = "parse" THEN MetadataRun("Serde", dir, bt, e.size)
    ELSE IF e.fail = "write" THEN MetadataRun("Io", written, bt, e.size)
    ELSE IF e.fail = "bitcode" THEN MetadataRun("Bitcode", written, bt, e.size)
    ELSE IF e.fail = "idxcreate" THEN MetadataRun("Io", cached, bt, e.size)
    ELSE IF e.fail = "idxwrite" THEN MetadataRun("Io", idx1, bt, e.size)
    ELSE IF e.etag = "none" THEN MetadataRun("OkTrue", idx2, bt, e.size)
    ELSE SwapSymlink(e, idx2, bt)

\* the other branch: read_package_idx of the requested package, then the insert
ReuseMetadata(req, e, dir) ==
    IF e.fail = "idxopen" \/ ~dir.idx.exists THEN MetadataRun("Io", dir, 0, 0)
    ELSE LET r == MetaCacheInsert(dir.pos_map, dir.data, req.pkg, dir.idx.data)
         IN MetadataRun("OkFalse", [dir EXCEPT !.pos_map = r.pos_map, !.data = r.data], 0, 0)

DownloadMetadata(req, e, dir) ==
    IF NeedsDownloading(e, dir) THEN FetchMetadata(req, e, dir)
    ELSE ReuseMetadata(req, e, dir)

(***************************************************************************)
(* download_and_track and the worker loop.                                 *)
(***************************************************************************)
\* the handler results that are errors
ErrOuts ==
    {"Reqwest", "Download404", "DownloadOther", "Io", "ParseInt", "Checksum", "Serde", "Bitcode"}

\* the match of download_and_track with the Checksum arm missing
TrackCounterNoChecksumArm(out) ==
    IF out = "OkTrue" THEN "success"
    ELSE IF out = "OkFalse" THEN "skipped"
    ELSE IF out = "Download404" THEN "skipped"
    ELSE IF out = "DownloadOther" THEN "failed"
    ELSE "skipped"

\* the match of download_and_track: the counter a handler result increments
TrackCounter(out) ==
    IF out = "OkTrue" THEN "success"
    ELSE IF out = "OkFalse" THEN "skipped"
    ELSE IF out = "Download404" THEN "skipped"
    ELSE IF out \in {"Checksum", "DownloadOther"} THEN "failed"
    ELSE "skipped"

\* download_and_track handing the handler's error on
DownloadAndTrackPropagates(out) ==
    [counter |-> TrackCounter(out), ret |-> IF out \in ErrOuts THEN "Err" ELSE "Ok"]

\* download_and_track: counts, and returns Ok(()) whatever the handler returned
DownloadAndTrack(out) == [counter |-> TrackCounter(out), ret |-> "Ok"]

\* the worker loop after one request: the returned value is discarded
WorkerLoop(ret) == "recv"

\* the end of a worker's iteration; `head` and `get` say how the HEAD request
\* of a Metadata request ended and whether its GET was sent
Track(w, out, streamed, got, head, get) ==
    LET t == DownloadAndTrack(out) IN
    /\ files' = [files EXCEPT ![t.counter] = @ + 1]
    /\ wkPc' = [wkPc EXCEPT ![w] = WorkerLoop(t.ret)]
    /\ wkReq' = [wkReq EXCEPT ![w] = NoReq]
    /\ wkLast' = [wkLast EXCEPT ![w] = [req |-> wkReq[w], out |-> out, ret |-> t.ret,
                                           streamed |-> streamed, got |-> got,
                                           head |-> head, get |-> get]]

\* rx.recv() returns a request
Recv(w) ==
    /\ wkPc[w] = "recv"
    /\ queue # <<>>
    /\ wkReq' = [wkReq EXCEPT ![w] = Head(queue)]
    /\ queue' = Tail(queue)
    /\ wkPc' = [wkPc EXCEPT ![w] = "busy"]
    /\ UNCHANGED <<wkLast, tarFile, etagFile, indexJson, linkTo, idxFile, prVars, mcVars>>

\* a worker runs download_and_track on a Tarball request
HandleTarball(w, envs) ==
    /\ wkPc[w] = "busy"
    /\ wkReq[w].kind = "Tarball"
    /\ \E e \in envs :
        /\ TarballEnvOk(e)
        /\ LET run == DownloadTarball(wkReq[w], e, tarFile[wkReq[w].path]) IN
            /\ tarFile' = [tarFile EXCEPT ![wkReq[w].path] = run.file]
            /\ bytes' = [bytes EXCEPT !.total = @ + run.btotal, !.success = @ + run.bsuccess]
            /\ Track(w, run.out, run.streamed, run.got, "none", FALSE)
    /\ UNCHANGED <<queue, etagFile, indexJson, linkTo, idxFile, step, total_bytes, mcVars>>

\* a worker runs download_and_track on a Metadata request
HandleMetadata(w, envs) ==
    /\ wkPc[w] = "busy"
    /\ wkReq[w].kind = "Metadata"
    /\ \E e \in envs :
        /\ MetadataEnvOk(e)
        /\ LET pkg == wkReq[w].pkg
               run == DownloadMetadata(wkReq[w], e, DirOf(pkg))
           IN
            /\ etagFile' = [etagFile EXCEPT ![pkg] = run.dir.etags]
            /\ indexJson' = [indexJson EXCEPT ![pkg] = run.dir.index]
            /\ linkTo' = [linkTo EXCEPT ![pkg] = run.dir.link]
            /\ idxFile' = [idxFile EXCEPT ![pkg] = run.dir.idx]
            /\ mcPosMap' = run.dir.pos_map
            /\ mcData' = run.dir.data
            /\ bytes' = [bytes EXCEPT !.total = @ + run.btotal, !.success = @ + run.bsuccess]
            /\ Track(w, run.out, <<>>, NoChecksum, e.head, NeedsDownloading(e, DirOf(pkg)))
    /\ UNCHANGED <<queue, tarFile, step, total_bytes, mcLast, mcCalls, mcFirst>>

\* Downloader::queue without its inc_total
QueueNoIncTotal == files' = files

\* Downloader::queue up to the send: inc_total(1)
QueueIncTotal == files' = [files EXCEPT !.total = @ + 1]

\* a send that never blocks
QueueSendUnbounded(req) == queue' = Append(queue, req)

\* Downloader::queue, the send: blocks while the channel is full
QueueSend(req) ==
    /\ Len(queue) < QueueCap
    /\ queue' = Append(queue, req)

\* the requests a caller may queue
Requests ==
    {MetadataReq(k, 0) : k \in DlPkgs}
    \cup {TarballReq(p, NoChecksum, 0) : p \in Paths}
    \cup {TarballReq(p, SomeChecksum(d), 0) : p \in Paths, d \in Digests}

\* a caller enters Downloader::queue
PdQueue(req) ==
    /\ pdPc = "idle"
    /\ pdCount < MaxReqs
    /\ QueueIncTotal
    /\ pdPc' = "send"
    /\ pdReq' = req
    /\ pdCount' = pdCount + 1
    /\ UNCHANGED <<dlVars, bytes, step, total_bytes, mcVars>>

\* its send completes
PdSend ==
    /\ pdPc = "send"
    /\ QueueSend(pdReq)
    /\ pdPc' = "idle"
    /\ pdReq' = NoReq
    /\ UNCHANGED <<pdCount, wkPc, wkReq, wkLast, tarFile, etagFile, indexJson, linkTo,
                   idxFile, prVars, mcVars>>

\* the process ends and main() runs again over the same output directory:
\* a new MetaCache, a new Downloader with its Progress and workers
NewRun ==
    /\ pdPc = "idle"
    /\ queue = <<>>
    /\ \A w \in Workers : wkPc[w] = "recv"
    /\ mcPosMap' = <<>>
    /\ mcData' = <<>>
    /\ files' = ProgressPartNew
    /\ bytes' = ProgressPartNew
    /\ step' = 0
    /\ total_bytes' = 0
    /\ wkLast' = [w \in Workers |-> NoLast]
    /\ UNCHANGED <<queue, wkPc, wkReq, tarFile, etagFile, indexJson, linkTo, idxFile,
                   pdVars, mcLast, mcCalls, mcFirst>>

\* the operations of the download branch before which a cancelled handler may
\* have stopped: what it leaves on disk is what a failure of that operation
\* leaves
CancelPoints ==
    {"send", "chunk", "write", "bitcode", "idxcreate", "idxwrite", "readlink", "rmold",
     "rmindex", "symlink"}

\* the process is stopped while worker w is inside download_metadata, and is
\* started again: the files stay, everything in memory is new
Crash(w, e) ==
    /\ pdPc = "idle"
    /\ wkPc[w] = "busy"
    /\ wkReq[w].kind = "Metadata"
    /\ \A v \in Workers \ {w} : wkPc[v] = "recv"
    /\ MetadataEnvOk(e)
    /\ e.fail \in CancelPoints
    /\ NeedsDownloading(e, DirOf(wkReq[w].pkg))
    /\ LET pkg == wkReq[w].pkg
           run == DownloadMetadata(wkReq[w], e, DirOf(pkg))
       IN
        /\ etagFile' = [etagFile EXCEPT ![pkg] = run.dir.etags]
        /\ indexJson' = [indexJson EXCEPT ![pkg] = run.dir.index]
        /\ linkTo' = [linkTo EXCEPT ![pkg] = run.dir.link]
        /\ idxFile' = [idxFile EXCEPT ![pkg] = run.dir.idx]
    /\ queue' = <<>>
    /\ wkPc' = [v \in Workers |-> "recv"]
    /\ wkReq' = [v \in Workers |-> NoReq]
    /\ wkLast' = [v \in Workers |->
                    IF v = w
                    THEN [NoLast EXCEPT !.req = wkReq[w], !.out = "Cancelled",
                                        !.head = e.head, !.get = TRUE]
                    ELSE NoLast]
    /\ mcPosMap' = <<>>
    /\ mcData' = <<>>
    /\ files' = ProgressPartNew
    /\ bytes' = ProgressPartNew
    /\ step' = 0
    /\ total_bytes' = 0
    /\ UNCHANGED <<tarFile, pdVars, mcLast, mcCalls, mcFirst>>

(***************************************************************************)
(* The orchestrator (mirror.rs): one task that runs the three phases,      *)
(* with the workers of the downloader beside it.  It keeps its own range   *)
(* cache, `versions` without a `removed` set, which no other task uses.    *)
(*                                                                         *)
(* The world of a run: two manifest files, one asking for any version of   *)
(* package 1 and one for version 0 of package 2 and any version of package *)
(* 1, and a registry in which every package has every version and each     *)
(* version v of package 1 depends on package NumKeys at exactly v.  A      *)
(* download may succeed; a metadata request may be answered 404 and a      *)
(* tarball request 500.  The mirror directory starts empty, or with a      *)
(* truncated index.json of package 2 that an earlier run left; what a      *)
(* worker of this run has written there parses.                            *)
(***************************************************************************)
FullRange == [lo |-> 0, hi |-> MaxVer]

\* the manifest files under opts.manifests_path, each the `dependencies` of one
Manifests ==
    << {[pkg |-> 1, range |-> FullRange]},
       {[pkg |-> 2, range |-> [lo |-> 0, hi |-> 0]], [pkg |-> 1, range |-> FullRange]} >>

\* the keys of a metadata document's `versions` object, in key order
RECURSIVE VersionKeys(_)
VersionKeys(from) ==
    IF from > MaxVer THEN <<>> ELSE <<from>> \o VersionKeys(from + 1)

\* `dependencies` then `devDependencies` of one version of a package
RegDeps(pkg, ver) ==
    IF pkg = 1 THEN << [dep |-> NumKeys, range |-> [lo |-> ver, hi |-> ver]] >>
    ELSE IF pkg = 2 /\ ver = 0 THEN << [dep |-> NumKeys, range |-> FullRange] >>
    ELSE <<>>

\* the version object of the document has a `dist` object with a `tarball`
\* string: in this registry every version but one
HasTarball(pkg, ver) == ~(pkg = NumKeys /\ ver = MaxVer)

\* the target path of the tarball of one version of a package
TarballPath(pkg, ver) == (pkg - 1) * (MaxVer + 1) + ver + 1

\* the runs of download_metadata in this world
MirrorMetadataEnv ==
    {e \in MetadataEnv :
        /\ e.head = "e1" /\ e.fail = "none" /\ e.clen # "bad" /\ e.status # 500
        /\ e.status = 200 => (e.etag = "e1" /\ e.clen = "ok" /\ e.size = 1 /\ e.rev = 0)}

\* the runs of download_tarball in this world
MirrorTarballEnv ==
    {e \in TarballEnv :
        /\ e.fail = "none" /\ e.clen # "bad" /\ e.status # 404
        /\ e.status = 200 => (e.clen = "ok" /\ e.body = <<0>>)}

VARIABLES
    mrPc,           \* where the orchestrator is
    mrFiles,        \* Phase 1: the manifest files not yet read
    mrTodo,         \* Phase 1: the dependencies of the current manifest not yet inserted
    packages,       \* Phase 2: the current work list
    new_packages,   \* Phase 2: the next round's work list
    visited,        \* Phase 2: the (package, version) pairs seen
    mrPkg,          \* Phases 2 and 3: the package being worked on
    mrVers,         \* Phase 2: its version keys not yet looked at
    mrDeps,         \* Phase 2: the dependencies of the current version not yet inserted
    mrItems,        \* Phase 3: the tarball paths of the current package not yet queued
    mrLeft,         \* Phase 3: the packages of the map not yet iterated
    mrReq,          \* the request the orchestrator is sending
    mrResult,       \* what mirror() returned, and the exit status of main()
    mrQueued,       \* history: per package, the queue() calls made for its metadata
    mrSent,         \* history: per target path, the queue() calls made for its tarball
    mrFlagged       \* history: the packages an insert of this round of Phase 2
                    \* answered package_is_new or range_is_new for

mrVars == <<mrPc, mrFiles, mrTodo, packages, new_packages, visited, mrPkg, mrVers,
            mrDeps, mrItems, mrLeft, mrReq, mrResult, mrQueued, mrFlagged,
            mrSent>>

\* the value mirror() returns: Ok(MirrorResult) or one of NpmError's variants;
\* `exit` holds the exit status once main() has exited
NoResult == [kind |-> "none", new_packages |-> 0, new_packages_bytes |-> 0, exit |-> <<>>]

InitMirror ==
    /\ mrPc = "start"
    /\ mrFiles = Manifests
    /\ mrTodo = {}
    /\ packages = <<>>
    /\ new_packages = <<>>
    /\ visited = {}
    /\ mrPkg = 0
    /\ mrVers = <<>>
    /\ mrDeps = <<>>
    /\ mrItems = <<>>
    /\ mrLeft = {}
    /\ mrReq = NoReq
    /\ mrResult = NoResult
    /\ mrQueued = [k \in Keys |-> 0]
    /\ mrFlagged = {}
    /\ mrSent = [p \in AllPaths |-> 0]

\* PackageRangeCache::insert of mirror.rs with the second lookup left out:
\* a range that is not dominated always starts a new list
MirrorInsertNoLookup(map, pkg, range) ==
    IF Dominated(map, pkg, range)
    THEN [map |-> map, package_is_new |-> FALSE, range_is_new |-> FALSE]
    ELSE InsertWriteNoLookup(map, pkg, range)

\* PackageRangeCache::insert of mirror.rs, run by its only user
MirrorInsert(map, pkg, range) ==
    IF Dominated(map, pkg, range)
    THEN [map |-> map, package_is_new |-> FALSE, range_is_new |-> FALSE]
    ELSE InsertWrite(map, pkg, range)

\* read_to_string(local_metadata_path(package)) succeeds: index.json is a file,
\* or a symlink to a file that is there
MetadataReadable(pkg) ==
    \/ indexJson[pkg] \in {"file", "junk"}
    \/ indexJson[pkg] = "link" /\ linkTo[pkg] \in etagFile[pkg]

\* a parse that takes anything
MetadataParsesAlways(pkg) == TRUE

\* serde_json::from_str of what was read succeeds
MetadataParses(pkg) == indexJson[pkg] # "junk"

\* mirror(): the map_err of each phase, without telling the phases apart
PhaseErrorOneVariant(phase) == [NoResult EXCEPT !.kind = "DownloadingDependencies"]

\* mirror(): the map_err of each phase
PhaseError(phase) ==
    [NoResult EXCEPT !.kind = CASE phase = 1 -> "DownloadingDependencies"
                               [] phase = 2 -> "DownloadingChildDependencies"
                               [] phase = 3 -> "DownloadingPackages"]

\* main(): the exit status for what mirror() returned
ExitCode(kind) == IF kind = "Ok" THEN 0 ELSE -1

\* Progress::next_step
NextStep ==
    /\ bytes' = ProgressPartNew
    /\ files' = ProgressPartNew
    /\ step' = step + 1
    /\ UNCHANGED total_bytes

\* Vec::push without Vec::contains
PushAlways(list, x) == Append(list, x)

\* Vec::push unless Vec::contains
PushNew(list, x) ==
    IF \E i \in 1..Len(list) : list[i] = x THEN list ELSE Append(list, x)

\* the orders a HashMap may iterate a key set in
Perms(S) ==
    {f \in [1..Cardinality(S) -> S] : \A i, j \in 1..Cardinality(S) : f[i] = f[j] => i = j}

\* one tarball per accumulated range and version that range allows
RECURSIVE TarballsPerRange(_, _, _)
TarballsPerRange(ranges, pkg, vers) ==
    IF ranges = <<>> THEN <<>>
    ELSE LET sel == SelectSeq(vers, LAMBDA v : /\ RangesSatisfies(<<Head(ranges)>>, v)
                                               /\ HasTarball(pkg, v))
         IN  [i \in 1..Len(sel) |-> TarballPath(pkg, sel[i])]
             \o TarballsPerRange(Tail(ranges), pkg, vers)

\* the versions of a package that some accumulated range allows and that
\* have a tarball URL, as tarball paths
RECURSIVE TarballsOf(_, _, _)
TarballsOf(ranges, pkg, vers) ==
    IF vers = <<>> THEN <<>>
    ELSE (IF RangesSatisfies(ranges, Head(vers)) /\ HasTarball(pkg, Head(vers))
          THEN <<TarballPath(pkg, Head(vers))>> ELSE <<>>)
         \o TarballsOf(ranges, pkg, Tail(vers))

\* mirror(): set_total_steps(3), next_step("Getting metadata").  The output
\* directory the run starts over is empty, or (`leftover`) holds for package
\* 2 the index.json an interrupted run left cut short
MirrorStart(leftover) ==
    /\ mrPc = "start"
    /\ UNCHANGED <<mrQueued, mrFlagged, mrSent>>
    /\ NextStep
    /\ mrPc' = "p1_read"
    /\ indexJson' = IF leftover THEN [indexJson EXCEPT ![2] = "junk"] ELSE indexJson
    /\ UNCHANGED <<mrFiles, mrTodo, packages, new_packages, visited, mrPkg, mrVers, mrDeps,
                   mrItems, mrLeft, mrReq, mrResult, versions, queue, wkPc, wkReq, wkLast,
                   tarFile, etagFile, linkTo, idxFile, mcVars>>

\* download_metadata: the next manifest file is read and parsed, or that
\* fails and mirror() returns the error; after the last one, the wait
P1Read(ok) ==
    /\ mrPc = "p1_read"
    /\ UNCHANGED <<mrQueued, mrFlagged, mrSent>>
    /\ IF mrFiles = <<>>
       THEN /\ mrPc' = "p1_wait"
            /\ UNCHANGED <<mrFiles, mrTodo, mrResult>>
       ELSE IF ok
       THEN /\ mrTodo' = Head(mrFiles)
            /\ mrFiles' = Tail(mrFiles)
            /\ mrPc' = "p1_entry"
            /\ UNCHANGED mrResult
       ELSE /\ mrPc' = "returned"
            /\ mrResult' = PhaseError(1)
            /\ UNCHANGED <<mrFiles, mrTodo>>
    /\ UNCHANGED <<packages, new_packages, visited, mrPkg, mrVers, mrDeps, mrItems, mrLeft,
                   mrReq, versions, prVars, dlVars, mcVars>>

\* download_metadata: one dependency of the manifest: insert, then queue()
\* up to its send when the package is new
P1Entry ==
    /\ mrPc = "p1_entry"
    /\ UNCHANGED <<mrFlagged, mrSent>>
    /\ IF mrTodo = {}
       THEN /\ mrPc' = "p1_read"
            /\ UNCHANGED <<mrTodo, mrReq, versions, files, mrQueued>>
       ELSE \E d \in mrTodo :
            LET res == MirrorInsert(versions, d.pkg, d.range) IN
            /\ mrTodo' = mrTodo \ {d}
            /\ versions' = res.map
            /\ IF res.package_is_new
               THEN /\ QueueIncTotal
                    /\ mrReq' = MetadataReq(d.pkg, step)
                    /\ mrQueued' = [mrQueued EXCEPT ![d.pkg] = @ + 1]
                    /\ mrPc' = "p1_send"
               ELSE UNCHANGED <<files, mrReq, mrPc, mrQueued>>
    /\ UNCHANGED <<mrFiles, packages, new_packages, visited, mrPkg, mrVers, mrDeps, mrItems,
                   mrLeft, mrResult, bytes, step, total_bytes, dlVars, mcVars>>

\* the send of a queue() call of Phase 1 or Phase 3 completes
MirrorSend(at, back) ==
    /\ mrPc = at
    /\ UNCHANGED <<mrQueued, mrFlagged, mrSent>>
    /\ QueueSend(mrReq)
    /\ mrReq' = NoReq
    /\ mrPc' = back
    /\ UNCHANGED <<mrFiles, mrTodo, packages, new_packages, visited, mrPkg, mrVers, mrDeps,
                   mrItems, mrLeft, mrResult, versions, prVars, wkPc, wkReq, wkLast, tarFile,
                   etagFile, indexJson, linkTo, idxFile, mcVars>>

\* a wait that returns without looking at remaining()
MirrorWaitNoLook(at, back, completion) ==
    /\ mrPc = at
    /\ UNCHANGED <<mrQueued, mrFlagged, mrSent>>
    /\ total_bytes' = IF completion THEN total_bytes + bytes.success ELSE total_bytes
    /\ mrPc' = back
    /\ UNCHANGED <<mrFiles, mrTodo, packages, new_packages, visited, mrPkg, mrVers, mrDeps,
                   mrItems, mrLeft, mrReq, mrResult, versions, files, bytes, step, dlVars,
                   mcVars>>

\* wait_for_idle (or, with `completion`, wait_for_completion) returns:
\* remaining() is not above zero (computed below zero it wraps to a large
\* u64, and the wait goes on)
MirrorWait(at, back, completion) ==
    /\ mrPc = at
    /\ UNCHANGED <<mrQueued, mrFlagged, mrSent>>
    /\ Remaining(files) = 0
    /\ total_bytes' = IF completion THEN total_bytes + bytes.success ELSE total_bytes
    /\ mrPc' = back
    /\ UNCHANGED <<mrFiles, mrTodo, packages, new_packages, visited, mrPkg, mrVers, mrDeps,
                   mrItems, mrLeft, mrReq, mrResult, versions, files, bytes, step, dlVars,
                   mcVars>>

\* mirror(): next_step("Getting child metadata"), and download_child_metadata
\* up to its loop: the keys of the map, in some order
P2Init ==
    /\ mrPc = "p1_done"
    /\ UNCHANGED <<mrQueued, mrFlagged, mrSent>>
    /\ NextStep
    /\ \E order \in Perms(DOMAIN versions) : packages' = order
    /\ new_packages' = <<>>
    /\ visited' = {}
    /\ mrPc' = "p2_loop"
    /\ UNCHANGED <<mrFiles, mrTodo, mrPkg, mrVers, mrDeps, mrItems, mrLeft, mrReq, mrResult,
                   versions, dlVars, mcVars>>

\* download_child_metadata: packages.pop(); an unreadable document goes
\* straight back to the loop condition, one that does not parse ends the
\* phase, and mirror(), with the error
P2Pop ==
    /\ mrPc = "p2_loop"
    /\ UNCHANGED <<mrQueued, mrFlagged, mrSent>>
    /\ IF packages = <<>>
       THEN /\ mrPc' = "p2_done"
            /\ UNCHANGED <<packages, mrPkg, mrVers, mrResult>>
       ELSE LET package == packages[Len(packages)] IN
            /\ packages' = SubSeq(packages, 1, Len(packages) - 1)
            /\ IF ~MetadataReadable(package)
               THEN UNCHANGED <<mrPkg, mrVers, mrPc, mrResult>>
               ELSE IF ~MetadataParses(package)
               THEN /\ mrPc' = "returned"
                    /\ mrResult' = PhaseError(2)
                    /\ UNCHANGED <<mrPkg, mrVers>>
               ELSE /\ mrPkg' = package
                    /\ mrVers' = VersionKeys(0)
                    /\ mrPc' = "p2_version"
                    /\ UNCHANGED mrResult
    /\ UNCHANGED <<mrFiles, mrTodo, new_packages, visited, mrDeps, mrItems, mrLeft, mrReq,
                   versions, prVars, dlVars, mcVars>>

\* download_child_metadata: the next version key of the package; after the
\* last one, the end of the loop body
P2Version ==
    /\ mrPc = "p2_version"
    /\ UNCHANGED <<mrQueued, mrSent>>
    /\ IF mrVers = <<>>
       THEN /\ IF packages = <<>>
               THEN /\ packages' = new_packages
                    /\ new_packages' = packages
                    /\ mrFlagged' = {}
                    /\ mrPc' = "p2_wait"
               ELSE /\ mrPc' = "p2_loop"
                    /\ UNCHANGED <<packages, new_packages, mrFlagged>>
            /\ UNCHANGED <<mrVers, visited, mrDeps>>
       ELSE LET v == Head(mrVers) IN
            /\ mrVers' = Tail(mrVers)
            /\ visited' = visited \cup {<<mrPkg, v>>}
            /\ IF <<mrPkg, v>> \notin visited
                  /\ mrPkg \in DOMAIN versions /\ RangesSatisfies(versions[mrPkg], v)
               THEN /\ mrDeps' = RegDeps(mrPkg, v)
                    /\ mrPc' = "p2_dep"
               ELSE UNCHANGED <<mrDeps, mrPc>>
            /\ UNCHANGED <<packages, new_packages, mrFlagged>>
    /\ UNCHANGED <<mrFiles, mrTodo, mrPkg, mrItems, mrLeft, mrReq, mrResult, versions,
                   prVars, dlVars, mcVars>>

\* populate_child_deps: one dependency: insert, then queue() up to its send
\* when the package is new, else the push when the range is
P2Dep ==
    /\ mrPc = "p2_dep"
    /\ UNCHANGED mrSent
    /\ IF mrDeps = <<>>
       THEN /\ mrPc' = "p2_version"
            /\ UNCHANGED <<mrDeps, mrReq, versions, files, new_packages, mrQueued,
                           mrFlagged>>
       ELSE LET d == Head(mrDeps)
                res == MirrorInsert(versions, d.dep, d.range)
            IN
            /\ mrDeps' = Tail(mrDeps)
            /\ versions' = res.map
            /\ mrFlagged' = IF res.package_is_new \/ res.range_is_new
                            THEN mrFlagged \cup {d.dep} ELSE mrFlagged
            /\ IF res.package_is_new
               THEN /\ QueueIncTotal
                    /\ mrReq' = MetadataReq(d.dep, step)
                    /\ mrQueued' = [mrQueued EXCEPT ![d.dep] = @ + 1]
                    /\ mrPc' = "p2_send"
                    /\ UNCHANGED new_packages
               ELSE /\ new_packages' =
                        IF res.range_is_new THEN PushNew(new_packages, d.dep) ELSE new_packages
                    /\ UNCHANGED <<files, mrReq, mrPc, mrQueued>>
    /\ UNCHANGED <<mrFiles, mrTodo, packages, visited, mrPkg, mrVers, mrItems, mrLeft,
                   mrResult, bytes, step, total_bytes, dlVars, mcVars>>

\* populate_child_deps: the send of the queue() call completes, and the new
\* package is pushed
P2Send ==
    /\ mrPc = "p2_send"
    /\ UNCHANGED <<mrQueued, mrFlagged, mrSent>>
    /\ QueueSend(mrReq)
    /\ new_packages' = PushNew(new_packages, mrReq.pkg)
    /\ mrReq' = NoReq
    /\ mrPc' = "p2_dep"
    /\ UNCHANGED <<mrFiles, mrTodo, packages, visited, mrPkg, mrVers, mrDeps, mrItems,
                   mrLeft, mrResult, versions, prVars, wkPc, wkReq, wkLast, tarFile,
                   etagFile, indexJson, linkTo, idxFile, mcVars>>

\* mirror(): next_step("Downloading packages"), and download_packages up to
\* its loop over the map
P3Init ==
    /\ mrPc = "p2_done"
    /\ UNCHANGED <<mrQueued, mrFlagged, mrSent>>
    /\ NextStep
    /\ mrLeft' = DOMAIN versions
    /\ mrPc' = "p3_pkg"
    /\ UNCHANGED <<mrFiles, mrTodo, packages, new_packages, visited, mrPkg, mrVers, mrDeps,
                   mrItems, mrReq, mrResult, versions, dlVars, mcVars>>

\* download_packages: the next package of the map, in some order; one whose
\* document cannot be read is passed over
P3Pkg ==
    /\ mrPc = "p3_pkg"
    /\ UNCHANGED <<mrQueued, mrFlagged, mrSent>>
    /\ IF mrLeft = {}
       THEN /\ mrPc' = "p3_wait"
            /\ UNCHANGED <<mrLeft, mrPkg, mrItems>>
       ELSE \E package \in mrLeft :
            /\ mrLeft' = mrLeft \ {package}
            /\ IF MetadataReadable(package) /\ MetadataParses(package)
               THEN /\ mrPkg' = package
                    /\ mrItems' = TarballsOf(versions[package], package, VersionKeys(0))
                    /\ mrPc' = "p3_item"
               ELSE UNCHANGED <<mrPkg, mrItems, mrPc>>
    /\ UNCHANGED <<mrFiles, mrTodo, packages, new_packages, visited, mrVers, mrDeps, mrReq,
                   mrResult, versions, prVars, dlVars, mcVars>>

\* download_packages: queue() of the next tarball, up to its send
P3Item ==
    /\ mrPc = "p3_item"
    /\ UNCHANGED <<mrQueued, mrFlagged>>
    /\ IF mrItems = <<>>
       THEN /\ mrPc' = "p3_pkg"
            /\ UNCHANGED <<mrItems, mrReq, files, mrSent>>
       ELSE /\ QueueIncTotal
            /\ mrSent' = [mrSent EXCEPT ![Head(mrItems)] = @ + 1]
            /\ mrReq' = TarballReq(Head(mrItems), NoChecksum, step)
            /\ mrItems' = Tail(mrItems)
            /\ mrPc' = "p3_send"
    /\ UNCHANGED <<mrFiles, mrTodo, packages, new_packages, visited, mrPkg, mrVers, mrDeps,
                   mrLeft, mrResult, versions, bytes, step, total_bytes, dlVars, mcVars>>

\* download_packages builds its MirrorResult: files.success() is read
P3ReadFiles ==
    /\ mrPc = "p3_done"
    /\ UNCHANGED <<mrQueued, mrFlagged, mrSent>>
    /\ mrPc' = "p3_bytes"
    /\ mrResult' = [mrResult EXCEPT !.new_packages = files.success]
    /\ UNCHANGED <<mrFiles, mrTodo, packages, new_packages, visited, mrPkg, mrVers, mrDeps,
                   mrItems, mrLeft, mrReq, versions, prVars, dlVars, mcVars>>

\* bytes.success() is read, and mirror() returns the MirrorResult
P3Return ==
    /\ mrPc = "p3_bytes"
    /\ UNCHANGED <<mrQueued, mrFlagged, mrSent>>
    /\ mrPc' = "returned"
    /\ mrResult' = [mrResult EXCEPT !.kind = "Ok", !.new_packages_bytes = bytes.success]
    /\ UNCHANGED <<mrFiles, mrTodo, packages, new_packages, visited, mrPkg, mrVers, mrDeps,
                   mrItems, mrLeft, mrReq, versions, prVars, dlVars, mcVars>>

\* main(): exit(0) after Ok, exit(-1) after Err
MainExit ==
    /\ mrPc = "returned"
    /\ UNCHANGED <<mrQueued, mrFlagged, mrSent>>
    /\ mrPc' = "exited"
    /\ mrResult' = [mrResult EXCEPT !.exit = <<ExitCode(mrResult.kind)>>]
    /\ UNCHANGED <<mrFiles, mrTodo, packages, new_packages, visited, mrPkg, mrVers, mrDeps,
                   mrItems, mrLeft, mrReq, versions, prVars, dlVars, mcVars>>

\* the orchestrator's steps
Mirror ==
    \/ \E leftover \in BOOLEAN : MirrorStart(leftover)
    \/ \E ok \in BOOLEAN : P1Read(ok)
    \/ P1Entry
    \/ MirrorSend("p1_send", "p1_entry")
    \/ MirrorWait("p1_wait", "p1_done", TRUE)
    \/ P2Init
    \/ P2Pop
    \/ P2Version
    \/ P2Dep
    \/ P2Send
    \/ MirrorWait("p2_wait", "p2_loop", FALSE)
    \/ P3Init
    \/ P3Pkg
    \/ P3Item
    \/ MirrorSend("p3_send", "p3_item")
    \/ MirrorWait("p3_wait", "p3_done", TRUE)
    \/ P3ReadFiles
    \/ P3Return
    \/ MainExit

(***************************************************************************)
(* Functions without state: the tarball URL forms (package_index.rs,       *)
(* downloader.rs).  A string is a sequence of characters; "r" stands for   *)
(* the characters of a scheme and host.  A call draws its arguments and    *)
(* leaves them, with the value computed, in fnCall.                        *)
(***************************************************************************)
VARIABLES
    fnCall      \* the last call: the function, its arguments, its value

fnVars == <<fnCall>>

InitFn == fnCall = [op |-> "none"]

\* str::strip_prefix: has `s` the prefix `pre`
HasPrefix(s, pre) == Len(pre) <= Len(s) /\ SubSeq(s, 1, Len(pre)) = pre

\* what follows the first `n` characters
DropFirst(s, n) == SubSeq(s, n + 1, Len(s))

\* str::find: the byte offsets at which `pat` occurs in `s`
Occurrences(s, pat) == {i \in 0..(Len(s) - Len(pat)) : SubSeq(s, i + 1, i + Len(pat)) = pat}

\* "/-/"
DashSep == <<"/", "-", "/">>

\* TarballUrl
Short(v) == [form |-> "Short", v |-> v]
Full(v) == [form |-> "Full", v |-> v]

\* strip_path
StripPath(v, package, registry_url) ==
    IF ~HasPrefix(v, registry_url) THEN Full(v)
    ELSE LET rest == DropFirst(v, Len(registry_url))
             found == Occurrences(rest, package)
         IN
         IF found = {} THEN Full(v)
         ELSE LET pos == CHOOSE i \in found : \A j \in found : i <= j
                  iv == DropFirst(rest, Len(package) + pos)
              IN IF HasPrefix(iv, DashSep) THEN Short(DropFirst(iv, 3)) ELSE Full(v)

\* Download::tarball: the url of the request
TarballUrlOf(package, url, registry_url) ==
    LET url_base == IF HasPrefix(registry_url, <<"/">>) THEN DropFirst(registry_url, 1)
                    ELSE registry_url
    IN IF url.form = "Short" THEN url_base \o <<"/">> \o package \o DashSep \o url.v
       ELSE url.v

\* the registry_url option, without and with a trailing slash
RegistryUrls == {<<"r">>, <<"r", "/">>}

\* package names
PackageNames == {<<"a">>, <<"b">>}

\* dist.tarball of a version: a scheme and host, perhaps a path segment, a
\* name, a separator and a file name
TarballUrls ==
    {h \o <<"/">> \o m \o n \o sep \o f :
        h \in {<<"r">>, <<"x">>},
        m \in {<<>>, <<"m", "/">>},
        n \in PackageNames \cup {<<"a", "b">>},
        sep \in {DashSep, <<"/">>},
        f \in {<<"t">>, <<"a", "t">>}}

\* from_sparse stores strip_path of a version's dist.tarball, and
\* Download::tarball builds the request's url from what was stored
CallTarball(v, package, registry_url) ==
    LET stored == StripPath(v, package, registry_url) IN
    /\ fnCall.op = "none"
    /\ fnCall' = [op |-> "tarball", url |-> v, package |-> package,
                  registry_url |-> registry_url, stored |-> stored,
                  rebuilt |-> TarballUrlOf(package, stored, registry_url)]

(***************************************************************************)
(* The index codec (package_index.rs, meta_cache.rs).  A PackageIndex is   *)
(* a record of four fields; bytes are small numbers.  bitcode is modelled  *)
(* as a tagged, length-prefixed layout in field order, and zstd as a       *)
(* run-length code: both change the bytes and both can be undone.          *)
(***************************************************************************)
\* the concatenation of a sequence of byte strings
RECURSIVE Flatten(_)
Flatten(ss) == IF ss = <<>> THEN <<>> ELSE Head(ss) \o Flatten(Tail(ss))

\* Option<TarballUrl>::None
NoneUrl == [form |-> "None", v |-> <<>>]

\* bitcode::serialize of the parts of a PackageIndex
SerBytes(v) == <<Len(v)>> \o v

SerTarball(t) ==
    CASE t.form = "None" -> <<0>>
      [] t.form = "Short" -> <<1>> \o SerBytes(t.v)
      [] t.form = "Full" -> <<2>> \o SerBytes(t.v)

SerDepVersion(r) ==
    CASE r.form = "Tag" -> <<0>> \o SerBytes(r.v)
      [] r.form = "Range" -> <<1, r.lo, r.hi>>
      [] r.form = "SubDep" -> <<2>> \o SerBytes(r.package) \o <<r.lo, r.hi>>
      [] r.form = "Other" -> <<3>> \o SerBytes(r.v)

SerDep(d) == SerBytes(d.package) \o SerDepVersion(d.range)

SerDeps(ds) == <<Len(ds)>> \o Flatten([i \in 1..Len(ds) |-> SerDep(ds[i])])

SerTag(t) == SerBytes(t.tag) \o <<t.pos>>

\* bitcode::serialize(&pkg_idx): dist_tags, versions, tarballs, deps
Serialize(idx) ==
    <<Len(idx.dist_tags)>> \o Flatten([i \in 1..Len(idx.dist_tags) |-> SerTag(idx.dist_tags[i])])
    \o SerBytes(idx.versions)
    \o <<Len(idx.tarballs)>> \o Flatten([i \in 1..Len(idx.tarballs) |-> SerTarball(idx.tarballs[i])])
    \o <<Len(idx.deps)>> \o Flatten([i \in 1..Len(idx.deps) |-> SerDeps(idx.deps[i])])

\* bitcode::deserialize, part by part: the value read and the bytes left
ParseBytes(b) == [val |-> SubSeq(b, 2, b[1] + 1), rest |-> DropFirst(b, b[1] + 1)]

ParseTarball(b) ==
    IF b[1] = 0 THEN [val |-> NoneUrl, rest |-> DropFirst(b, 1)]
    ELSE LET v == ParseBytes(DropFirst(b, 1))
         IN [val |-> IF b[1] = 1 THEN Short(v.val) ELSE Full(v.val), rest |-> v.rest]

ParseDepVersion(b) ==
    IF b[1] = 1
    THEN [val |-> [form |-> "Range", lo |-> b[2], hi |-> b[3]], rest |-> DropFirst(b, 3)]
    ELSE IF b[1] = 2
    THEN LET p == ParseBytes(DropFirst(b, 1))
         IN [val |-> [form |-> "SubDep", package |-> p.val, lo |-> p.rest[1],
                      hi |-> p.rest[2]],
             rest |-> DropFirst(p.rest, 2)]
    ELSE LET v == ParseBytes(DropFirst(b, 1))
         IN [val |-> [form |-> IF b[1] = 0 THEN "Tag" ELSE "Other", v |-> v.val],
             rest |-> v.rest]

ParseDep(b) ==
    LET p == ParseBytes(b)
        r == ParseDepVersion(p.rest)
    IN [val |-> [package |-> p.val, range |-> r.val], rest |-> r.rest]

ParseTag(b) ==
    LET t == ParseBytes(b)
    IN [val |-> [tag |-> t.val, pos |-> t.rest[1]], rest |-> DropFirst(t.rest, 1)]

RECURSIVE ParseTags(_, _)
ParseTags(b, n) ==
    IF n = 0 THEN [val |-> <<>>, rest |-> b]
    ELSE LET x == ParseTag(b)
             xs == ParseTags(x.rest, n - 1)
         IN [val |-> <<x.val>> \o xs.val, rest |-> xs.rest]

RECURSIVE ParseTarballs(_, _)
ParseTarballs(b, n) ==
    IF n = 0 THEN [val |-> <<>>, rest |-> b]
    ELSE LET x == ParseTarball(b)
             xs == ParseTarballs(x.rest, n - 1)
         IN [val |-> <<x.val>> \o xs.val, rest |-> xs.rest]

RECURSIVE ParseDeps(_, _)
ParseDeps(b, n) ==
    IF n = 0 THEN [val |-> <<>>, rest |-> b]
    ELSE LET x == ParseDep(b)
             xs == ParseDeps(x.rest, n - 1)
         IN [val |-> <<x.val>> \o xs.val, rest |-> xs.rest]

RECURSIVE ParseDepLists(_, _)
ParseDepLists(b, n) ==
    IF n = 0 THEN [val |-> <<>>, rest |-> b]
    ELSE LET x == ParseDeps(DropFirst(b, 1), b[1])
             xs == ParseDepLists(x.rest, n - 1)
         IN [val |-> <<x.val>> \o xs.val, rest |-> xs.rest]

\* bitcode::deserialize(&buf[..]): an error when bytes are left over
Deserialize(b) ==
    LET t == ParseTags(DropFirst(b, 1), b[1])
        v == ParseBytes(t.rest)
        u == ParseTarballs(DropFirst(v.rest, 1), v.rest[1])
        d == ParseDepLists(DropFirst(u.rest, 1), u.rest[1])
    IN IF d.rest = <<>>
       THEN [ok |-> TRUE,
             val |-> [dist_tags |-> t.val, versions |-> v.val, tarballs |-> u.val,
                      deps |-> d.val]]
       ELSE [ok |-> FALSE]

\* zstd::encode_all(data, 3): each run of equal bytes as its length and byte
RunLen(data) ==
    IF \E i \in 1..Len(data) : data[i] # data[1]
    THEN (CHOOSE i \in 1..Len(data) :
              data[i] # data[1] /\ \A j \in 1..(i - 1) : data[j] = data[1]) - 1
    ELSE Len(data)

RECURSIVE Compress(_)
Compress(data) ==
    IF data = <<>> THEN <<>>
    ELSE <<RunLen(data), data[1]>> \o Compress(DropFirst(data, RunLen(data)))

\* the bytes a zstd decoder produces from a compressed stream
RECURSIVE Decompress(_)
Decompress(c) ==
    IF c = <<>> THEN <<>>
    ELSE [i \in 1..c[1] |-> c[2]] \o Decompress(DropFirst(c, 2))

\* write_u64 and read_u64: eight bytes, most significant first
RECURSIVE BytesBE(_, _)
BytesBE(n, k) == IF k = 0 THEN <<>> ELSE BytesBE(n \div 256, k - 1) \o <<n % 256>>

RECURSIVE ReadBE(_)
ReadBE(b) == IF b = <<>> THEN 0 ELSE ReadBE(SubSeq(b, 1, Len(b) - 1)) * 256 + b[Len(b)]

\* the length write_package_idx puts in front of the compressed bytes
UncompressedLenOfCompressed(idx_data, compressed) == Len(compressed)
UncompressedLen(idx_data, compressed) == Len(idx_data)

\* write_package_idx: the blob handed to meta_cache.insert and to the file
EncodeIdx(pkg_idx) ==
    LET idx_data == Serialize(pkg_idx)
        compressed == Compress(idx_data)
    IN BytesBE(UncompressedLen(idx_data, compressed), 8) \o compressed

\* buf.resize(new_len, 0): cut, or filled up with zeros
Resize(buf, new_len) ==
    IF Len(buf) >= new_len THEN SubSeq(buf, 1, new_len)
    ELSE buf \o [i \in 1..(new_len - Len(buf)) |-> 0]

\* MetaCache::get on a stored blob, with the caller's buffer as it was left;
\* copy_decode into the slice fails when the slice is too short
DecodeIdx(blob, buf) ==
    LET uncompressed_len == ReadBE(SubSeq(blob, 1, 8))
        sized == Resize(buf, uncompressed_len)
        plain == Decompress(DropFirst(blob, 8))
    IN IF Len(plain) > uncompressed_len THEN [ok |-> FALSE]
       ELSE Deserialize(plain \o DropFirst(sized, Len(plain)))

\* the indexes from_sparse builds: versions ascending, one tarball slot and
\* one dependency list per version, tags only for versions that exist
MaxIdxVersions == 2

RECURSIVE Ascending(_, _)
Ascending(S, from) ==
    IF from >= MaxIdxVersions THEN <<>>
    ELSE (IF from \in S THEN <<from>> ELSE <<>>) \o Ascending(S, from + 1)

IdxVersionLists == {Ascending(S, 0) : S \in SUBSET (0..(MaxIdxVersions - 1))}

IdxTarballs == {NoneUrl, Short(<<1>>), Full(<<2, 1>>)}

IdxDepLists ==
    { <<>>,
      <<[package |-> <<1>>, range |-> [form |-> "Range", lo |-> 0, hi |-> 1]]>>,
      <<[package |-> <<1>>, range |-> [form |-> "Tag", v |-> <<3>>]]>>,
      <<[package |-> <<2>>, range |-> [form |-> "SubDep", package |-> <<1>>,
                                        lo |-> 1, hi |-> 1]],
        [package |-> <<1, 2>>, range |-> [form |-> "Other", v |-> <<>>]]>> }

IdxDistTags(vs) ==
    {<<>>} \cup {<<[tag |-> <<4>>, pos |-> p]>> : p \in 0..(Len(vs) - 1)}

Indexes ==
    UNION { [dist_tags : IdxDistTags(vs), versions : {vs},
             tarballs : [1..Len(vs) -> IdxTarballs],
             deps : [1..Len(vs) -> IdxDepLists]] : vs \in IdxVersionLists }

\* what the caller's buffer holds before get: nothing, or an earlier index
Buffers == {<<>>, <<0, 0, 5, 5, 5, 5, 5, 5, 5, 5, 5, 5, 5, 5, 5, 5>>}

\* write_package_idx of an index, then MetaCache::get of the blob
CallCodec(pkg_idx, buf) ==
    LET blob == EncodeIdx(pkg_idx) IN
    /\ fnCall.op = "none"
    /\ fnCall' = [op |-> "codec", idx |-> pkg_idx, blob |-> blob, buf |-> buf,
                  decoded |-> DecodeIdx(blob, buf)]

(***************************************************************************)
(* populate_child_deps (mirror.rs) on one entry of a `dependencies`        *)
(* object.  The value is a string; what matters of it is which of the      *)
(* function's tests it passes: "Other" (empty, or one of the prefixes      *)
(* link:, git, gist, workspace, http, file, "."), "SubDep" (npm:<name>@    *)
(* <range>), "Range" (Range::from_str succeeds) or "Tag" (anything else).  *)
(***************************************************************************)
DepSpecs ==
    {[form |-> "Other"]}
    \cup {[form |-> "SubDep", package |-> k, range |-> [lo |-> v, hi |-> v]] :
            k \in Keys, v \in 0..MaxVer}
    \cup {[form |-> "Range", range |-> [lo |-> lo, hi |-> hi]] :
            lo \in 0..MaxVer, hi \in 0..MaxVer}
    \cup {[form |-> "Tag", tag |-> t] : t \in {"latest", "next"}}

\* the dist-tags of the dependency's document: "latest" names a version or
\* is not there, "next" is never there
DistTags == {<<>>} \cup {[t \in {"latest"} |-> v] : v \in 0..MaxVer}

\* the (package, range) pairs populate_child_deps goes on to insert for one
\* entry: the skipped prefixes and npm: `continue`, and so does a string that
\* Range::from_str rejects
PopulateChildDep(dep, spec) ==
    IF spec.form = "Range" THEN <<[package |-> dep, range |-> spec.range]>> ELSE <<>>

\* populate_child_deps on one entry of a document whose dist-tags are `tags`
CallProcess(dep, spec, tags) ==
    /\ fnCall.op = "none"
    /\ fnCall' = [op |-> "deps", dep |-> dep, spec |-> spec, tags |-> tags,
                  processed |-> PopulateChildDep(dep, spec)]

(***************************************************************************)
(* VersionRangeDeserializer::visit_borrowed_str (sparse_metadata.rs): the  *)
(* value of one entry of a `dependencies` object, a string, becomes a      *)
(* DepVersion.  A string is a sequence of symbols: "npm:" and "file:" are  *)
(* those prefixes ("file:" stands for every prefix of the Other test),     *)
(* "@", "a" a character of a name, "1" a character of a range, " " white   *)
(* space.                                                                  *)
(***************************************************************************)
\* the longest dependency string
MaxSpecLen == 5

SpecSyms == {"npm:", "file:", "@", "a", "1", " "}
SpecStrings == UNION {[1..n -> SpecSyms] : n \in 0..MaxSpecLen}

\* str::trim
RECURSIVE TrimStart(_)
TrimStart(s) == IF s # <<>> /\ Head(s) = " " THEN TrimStart(Tail(s)) ELSE s
RECURSIVE TrimEnd(_)
TrimEnd(s) ==
    IF s # <<>> /\ s[Len(s)] = " " THEN TrimEnd(SubSeq(s, 1, Len(s) - 1)) ELSE s
Trim(s) == TrimEnd(TrimStart(s))

\* str::starts_with
StartsWith(s, sym) == s # <<>> /\ s[1] = sym

\* Range::from_str(s).is_ok(): the characters of a range between white
\* space; `blank` is what the crate answers for a string with nothing else
RangeFromStr(s, blank) ==
    IF Trim(s) = <<>> THEN blank
    ELSE \A i \in 1..Len(Trim(s)) : Trim(s)[i] = "1"

\* the split of s at its occurrence number i of the separator
SplitAt(s, i) == [some |-> TRUE, left |-> SubSeq(s, 1, i - 1), right |-> SubSeq(s, i + 1, Len(s))]
NoSplit == [some |-> FALSE, left |-> <<>>, right |-> <<>>]

\* str::split_once('@'): at the first '@'
SplitOnce(s) ==
    LET at == {i \in 1..Len(s) : s[i] = "@"}
    IN  IF at = {} THEN NoSplit
        ELSE SplitAt(s, CHOOSE i \in at : \A j \in at : i <= j)

\* the DepVersion variants; Range and SubDep carry the text of their range
DepRange(text) == [form |-> "Range", package |-> <<>>, range |-> text]
DepOther == [form |-> "Other", package |-> <<>>, range |-> <<>>]
DepSubDep(name, text) == [form |-> "SubDep", package |-> name, range |-> text]
DepTag == [form |-> "Tag", package |-> <<>>, range |-> <<>>]

\* visit_borrowed_str
VisitBorrowedStr(value, blank) ==
    IF RangeFromStr(value, blank) THEN DepRange(value)
    ELSE IF Trim(value) = <<>> \/ StartsWith(value, "file:") THEN DepOther
    ELSE LET sub == SplitOnce(Tail(value)) IN
         IF StartsWith(value, "npm:") /\ sub.some /\ RangeFromStr(sub.right, blank)
         THEN DepSubDep(sub.left, sub.right)
         ELSE DepTag

\* one dependency string is deserialized
CallVisit(value, blank) ==
    /\ fnCall.op = "none"
    /\ fnCall' = [op |-> "visit", value |-> value, blank |-> blank,
                  out |-> VisitBorrowedStr(value, blank)]

vars == <<rcVars, mcVars, prVars, dlVars, pdVars, mrVars, fnVars>>

Init == InitRC /\ InitMC /\ InitProgress /\ InitDL /\ InitMirror /\ InitFn

\* callers run concurrently, interleaved at the lock acquisitions
NextRC == (\E p \in Procs : RcCall(p) \/ RcStep(p)) /\ UNCHANGED <<mcVars, prVars, dlVars, pdVars, mrVars, fnVars>>

SpecRC == Init /\ [][NextRC]_vars

\* one call at a time: a call starts only when no other is running
NextRCSeq ==
    (\E p \in Procs : (AllIdle /\ RcCall(p)) \/ RcStep(p)) /\ UNCHANGED <<mcVars, prVars, dlVars, pdVars, mrVars, fnVars>>

SpecRCSeq == Init /\ [][NextRCSeq]_vars

\* the metadata cache under any sequence of insert calls
NextMC == (\E pkg \in Keys, blob \in Blobs : MetaInsert(pkg, blob)) /\ UNCHANGED <<rcVars, prVars, dlVars, pdVars, mrVars, fnVars>>

SpecMC == Init /\ [][NextMC]_vars

\* the downloader on its own: a caller queueing requests, and the workers,
\* over one run of the program after another
NextDL ==
    \/ (\E req \in Requests : PdQueue(req)) /\ UNCHANGED <<rcVars, mrVars, fnVars>>
    \/ PdSend /\ UNCHANGED <<rcVars, mrVars, fnVars>>
    \/ (\E w \in Workers : Recv(w)) /\ UNCHANGED <<rcVars, pdVars, mrVars, fnVars>>
    \/ (\E w \in Workers : HandleTarball(w, TarballEnv)) /\ UNCHANGED <<rcVars, pdVars, mrVars, fnVars>>
    \/ (\E w \in Workers : HandleMetadata(w, MetadataEnv)) /\ UNCHANGED <<rcVars, pdVars, mrVars, fnVars>>
    \/ NewRun /\ UNCHANGED <<rcVars, mrVars, fnVars>>

SpecDL == Init /\ [][NextDL]_vars

\* the downloader over runs that may be cancelled inside download_metadata
NextCrash ==
    \/ NextDL
    \/ (\E w \in Workers, e \in MetadataEnv : Crash(w, e))
            /\ UNCHANGED <<rcVars, mrVars, fnVars>>

SpecCrash == Init /\ [][NextCrash]_vars

\* a mirror run: the orchestrator and the workers
RcRest == <<removed, rcPc, rcArg, rcRes, rcCalls, rcInserted, rcRemoveCalled, rcNewCount>>

Next ==
    \/ Mirror /\ UNCHANGED <<RcRest, pdVars, fnVars>>
    \/ (\E w \in Workers : Recv(w)) /\ UNCHANGED <<rcVars, pdVars, mrVars, fnVars>>
    \/ (\E w \in Workers : HandleTarball(w, MirrorTarballEnv))
            /\ UNCHANGED <<rcVars, pdVars, mrVars, fnVars>>
    \/ (\E w \in Workers : HandleMetadata(w, MirrorMetadataEnv))
            /\ UNCHANGED <<rcVars, pdVars, mrVars, fnVars>>

Spec == Init /\ [][Next]_vars

\* the steps of the orchestrator task and of one worker task
MirrorStep == Mirror /\ UNCHANGED <<RcRest, pdVars, fnVars>>
WorkerStep(w) ==
    /\ \/ Recv(w)
       \/ HandleTarball(w, MirrorTarballEnv)
       \/ HandleMetadata(w, MirrorMetadataEnv)
    /\ UNCHANGED <<rcVars, pdVars, mrVars, fnVars>>

\* a mirror run under a fair scheduler: a task that can take a step is not
\* left waiting forever, and every HTTP and file operation ends (a handler is
\* one step)
SpecFair ==
    /\ Init /\ [][Next]_vars
    /\ WF_vars(MirrorStep)
    /\ \A w \in Workers : WF_vars(WorkerStep(w))

\* the functions without state, called with any arguments
NextFn ==
    \/ (fnCall.op = "none" /\ \E value \in SpecStrings, blank \in BOOLEAN :
            CallVisit(value, blank))
       /\ UNCHANGED <<rcVars, mcVars, prVars, dlVars, pdVars, mrVars>>
    \/ (fnCall.op = "none" /\ \E dep \in Keys, spec \in DepSpecs, tags \in DistTags :
            CallProcess(dep, spec, tags))
       /\ UNCHANGED <<rcVars, mcVars, prVars, dlVars, pdVars, mrVars>>
    \/ (fnCall.op = "none" /\ \E pkg_idx \in Indexes, buf \in Buffers :
            CallCodec(pkg_idx, buf))
       /\ UNCHANGED <<rcVars, mcVars, prVars, dlVars, pdVars, mrVars>>
    \/ (fnCall.op = "none" /\ \E v \in TarballUrls, package \in PackageNames,
                                   registry_url \in RegistryUrls :
            CallTarball(v, package, registry_url))
        /\ UNCHANGED <<rcVars, mcVars, prVars, dlVars, pdVars, mrVars>>

SpecFn == Init /\ [][NextFn]_vars

(***************************************************************************)
(* Range cache: the properties.                                            *)
(***************************************************************************)

\* C1 (range cache monotonicity): with no remove for the package and every
\* call completed, each version admitted by the range of some completed
\* insert is admitted by one of the ranges accumulated for the package.
C1_Monotonicity ==
    AllIdle =>
        \A k \in Pkgs \ rcRemoveCalled : \A r \in rcInserted[k] : \A v \in Versions :
            Satisfies(r, v) => (k \in DOMAIN versions /\ RangesSatisfies(versions[k], v))

\* C2 (package-new uniqueness): for a package remove was never called for,
\* package_is_new=true has been returned by at most one insert call.
C2_PackageNewOnce ==
    \A k \in Pkgs \ rcRemoveCalled : rcNewCount[k] <= 1

\* C2's case: two callers have written for a package never removed, and the
\* second range allows all of the first: its caller made the dominance check
\* before the first one wrote.  One of the two was told the package is new.
C2_Witness ==
    \E k \in DOMAIN versions \ rcRemoveCalled :
        /\ Len(versions[k]) = 2
        /\ AllowsAll(versions[k][2], versions[k][1])
        /\ rcNewCount[k] = 1
        /\ \E p, q \in Procs :
               /\ p # q
               /\ rcRes[p].op = "insert" /\ rcRes[p].package_is_new
               /\ rcRes[q].op = "insert" /\ ~rcRes[q].package_is_new /\ rcRes[q].range_is_new

\* C3 (tombstone absorption): a satisfies call made after remove(pkg) returned
\* returns false; an insert call made after it returns {false,false} and never
\* reaches its dominance check or its write phase.
C3_TombstoneAbsorbs ==
    \A p \in Procs :
        /\ (rcRes[p].after /\ rcRes[p].op = "insert") =>
               (~rcRes[p].package_is_new /\ ~rcRes[p].range_is_new)
        /\ (rcRes[p].after /\ rcRes[p].op = "satisfies") => ~rcRes[p].sat
        /\ (rcArg[p].after /\ rcArg[p].op = "insert") =>
               rcPc[p] \in {"idle", "ins_removed"}
        /\ (rcArg[p].after /\ rcArg[p].op = "satisfies") =>
               rcPc[p] \in {"idle", "sat_removed"}

\* C3's case: remove has returned and an insert made after that has returned.
C3_Witness ==
    \E p, q \in Procs :
        /\ rcRes[q].op = "remove"
        /\ rcPc[p] = "idle" /\ rcRes[p].op = "insert" /\ rcRes[p].after
        /\ removed # {}

\* C4 (tombstones and ranges are disjoint): no package is both in the removed
\* set and a key of the ranges map.
C4_RemovedDisjoint == removed \cap DOMAIN versions = {}

\* C5 (sequential insert): a step of an insert that returns leaves the cache
\* unchanged and returns {false,false} when the package is tombstoned or the
\* new range allows all of an accumulated one; else it appends the range to
\* the package's list and returns {false,true}, or creates the list and
\* returns {true,true}.  Steps that do not return change nothing.
C5_InsertStep(p) ==
    LET pkg == rcArg[p].pkg
        r == rcArg[p].range
        tomb == pkg \in removed
        dom == /\ pkg \in DOMAIN versions
               /\ \E i \in 1..Len(versions[pkg]) : AllowsAll(r, versions[pkg][i])
        res == rcRes'[p]
    IN  /\ removed' = removed
        /\ IF rcPc'[p] # "idle" THEN versions' = versions
           ELSE /\ res.op = "insert"
                /\ res.package_is_new => res.range_is_new
                /\ IF tomb \/ dom
                   THEN ~res.package_is_new /\ ~res.range_is_new /\ versions' = versions
                   ELSE IF pkg \in DOMAIN versions
                   THEN /\ ~res.package_is_new /\ res.range_is_new
                        /\ versions' = [versions EXCEPT ![pkg] = Append(@, r)]
                   ELSE /\ res.package_is_new /\ res.range_is_new
                        /\ DOMAIN versions' = DOMAIN versions \cup {pkg}
                        /\ versions'[pkg] = <<r>>
                        /\ \A k \in DOMAIN versions : versions'[k] = versions[k]

C5_SequentialInsert ==
    [][\A p \in Procs :
          (rcArg[p].op = "insert" /\ rcPc[p] # "idle" /\ rcPc'[p] # rcPc[p])
              => C5_InsertStep(p)]_vars

\* C5's case: a list has been created, and an insert for the package, not
\* tombstoned, has then returned {false,false}.
C5_Witness ==
    \E p \in Procs :
        /\ rcPc[p] = "idle" /\ rcRes[p].op = "insert" /\ ~rcRes[p].after
        /\ ~rcRes[p].range_is_new
        /\ \E k \in DOMAIN versions : Len(versions[k]) >= 1

(***************************************************************************)
(* Metadata cache: the properties.                                         *)
(***************************************************************************)

\* C6 (MetaCache is append-only): the bytes get decodes for a key are always
\* the blob of the first insert for that key; an insert for a present key
\* returns false and changes neither data nor pos_map; no insert changes the
\* (pos, len) or the bytes of a present key, and data only grows at its end.
C6_FirstBlobKept ==
    /\ DOMAIN mcPosMap = DOMAIN mcFirst
    /\ \A k \in DOMAIN mcPosMap : MetaCacheSlice(mcPosMap, mcData, k) = mcFirst[k]

C6_InsertStep ==
    /\ (mcLast'.pkg \in DOMAIN mcPosMap) =>
           (~mcLast'.ret /\ mcData' = mcData /\ mcPosMap' = mcPosMap)
    /\ (mcLast'.pkg \notin DOMAIN mcPosMap) => mcLast'.ret
    /\ \A k \in DOMAIN mcPosMap :
           /\ k \in DOMAIN mcPosMap'
           /\ mcPosMap'[k] = mcPosMap[k]
           /\ MetaCacheSlice(mcPosMap', mcData', k) = MetaCacheSlice(mcPosMap, mcData, k)
    /\ SubSeq(mcData', 1, Len(mcData)) = mcData

C6_AppendOnly == [](C6_FirstBlobKept) /\ [][mcCalls' # mcCalls => C6_InsertStep]_vars

\* C6's case: with two keys present, an insert for a present key, with a blob
\* other than that key's first one, has returned false.
C6_Witness ==
    /\ Cardinality(DOMAIN mcPosMap) >= 2
    /\ mcLast.pkg \in DOMAIN mcPosMap
    /\ ~mcLast.ret
    /\ mcLast.blob # mcFirst[mcLast.pkg]

\* C7: a Tarball request with checksum Some(c) that ends as a
\* success leaves at target_path exactly the streamed bytes, with digest c;
\* one whose computed digest differs from c ends with Checksum, no file at
\* target_path, and files.failed incremented.
C7_ChecksumIntegrity ==
    [][\A w \in Workers :
        (wkPc[w] = "busy" /\ wkPc'[w] # "busy" /\ wkReq[w].kind = "Tarball"
            /\ wkReq[w].checksum.some) =>
            LET l == wkLast'[w]
                f == tarFile'[wkReq[w].path]
                c == wkReq[w].checksum.digest
            IN
            /\ l.out = "OkTrue" =>
                f.exists /\ f.data = l.streamed /\ Digest(f.data) = c
            /\ (l.got.some /\ l.got.digest # c) =>
                /\ l.out = "Checksum"
                /\ ~f.exists
                /\ files' = [files EXCEPT !.failed = @ + 1]]_vars

\* What does hold of the checksummed Tarball handler: as C7 for a success; a
\* request whose computed digest differs from c never ends as a success, and
\* either the file is removed, the handler returns Checksum and files.failed
\* is incremented, or removing the file failed, the handler returns that I/O
\* error and files.skipped is incremented.
C7_ChecksumIntegrityAmended ==
    [][\A w \in Workers :
        (wkPc[w] = "busy" /\ wkPc'[w] # "busy" /\ wkReq[w].kind = "Tarball"
            /\ wkReq[w].checksum.some) =>
            LET l == wkLast'[w]
                f == tarFile'[wkReq[w].path]
                c == wkReq[w].checksum.digest
            IN
            /\ l.out = "OkTrue" =>
                f.exists /\ f.data = l.streamed /\ Digest(f.data) = c
            /\ (l.got.some /\ l.got.digest # c) =>
                \/ /\ l.out = "Checksum"
                   /\ ~f.exists
                   /\ files' = [files EXCEPT !.failed = @ + 1]
                \/ /\ l.out = "Io"
                   /\ files' = [files EXCEPT !.skipped = @ + 1]]_vars

\* a worker ended a checksummed request with Checksum, the file is gone and
\* it was counted failed; another ended one as a success with a non-empty file
C7_Witness ==
    \E w, v \in Workers :
        /\ wkLast[w].out = "Checksum" /\ wkLast[w].req.checksum.some
        /\ wkLast[w].got.digest # wkLast[w].req.checksum.digest
        /\ files.failed = 1
        /\ wkLast[v].out = "OkTrue" /\ wkLast[v].req.checksum.some
        /\ tarFile[wkLast[v].req.path] = FileOf(wkLast[v].streamed)
        /\ wkLast[v].streamed # <<>>

\* the counter the claim's table names for a handler result
C8_Expected(out) ==
    CASE out = "OkTrue" -> "success"
      [] out = "OkFalse" -> "skipped"
      [] out = "Download404" -> "skipped"
      [] out = "DownloadOther" -> "failed"
      [] out = "Checksum" -> "failed"
      [] OTHER -> "skipped"

InFlight == {queue[i] : i \in 1..Len(queue)} \cup {wkReq[w] : w \in {v \in Workers : wkPc[v] = "busy"}}

\* C10: the phases run in order, and at each next_step no request of the
\* phase that ends is queued or being handled: the step counter goes up by one
\* at a time, every request queued or in a worker's hands was queued in the
\* current step, and a next_step after the first is taken with remaining() at
\* zero, the channel empty and every worker at recv.
C10_PhaseBarrier ==
    /\ [](\A r \in InFlight : r.step = step)
    /\ [][step' # step =>
            /\ step' = step + 1
            /\ mrPc \in {"start", "p1_done", "p2_done"}
            /\ Remaining(files) = 0
            /\ InFlight = {}]_vars


(***************************************************************************)
(* The orchestrator: the properties.                                       *)
(***************************************************************************)

\* C11: download_child_metadata returns only when the current work list and
\* the next round's work list are both empty: at its return no package is
\* waiting in new_packages, whatever happened to the last package popped.
C11_Phase2Return ==
    mrPc = "p2_done" => (packages = <<>> /\ new_packages = <<>>)


\* C12: over a whole mirror run, Phases 1 and 2 together, queue() is called
\* for at most one Metadata download per package name, however many
\* manifests or parent versions depend on the package: exactly one for a
\* package the range cache tracks, none for any other.
C12_MetadataQueuedOnce ==
    \A k \in Keys : mrQueued[k] = IF k \in DOMAIN versions THEN 1 ELSE 0

\* two versions of package 1 have each brought in a range of the package they
\* depend on, and both manifests naming package 1 have been read
C12_Witness ==
    /\ NumKeys \in DOMAIN versions /\ Len(versions[NumKeys]) >= 2
    /\ mrFiles = <<>> /\ mrPc = "returned" /\ mrResult.kind = "Ok"
    /\ mrQueued[NumKeys] = 1 /\ mrQueued[1] = 1


\* opts.greedy as the command line leaves it
Greedy == FALSE

\* Ranges::max_satisfying: per accumulated range, the highest of the versions
\* that satisfies it, when there is one
MaxSatisfying(ranges, vers) ==
    {v \in vers : \E i \in 1..Len(ranges) :
        /\ Satisfies(ranges[i], v)
        /\ \A u \in vers : Satisfies(ranges[i], u) => u <= v}

\* the versions the option selects for a package with these ranges
Selected(ranges, vers) ==
    IF Greedy THEN {v \in vers : RangesSatisfies(ranges, v)} ELSE MaxSatisfying(ranges, vers)

\* C13: version selection honours the greedy option: without it, only the
\* highest version satisfying each accumulated range of a package is expanded
\* in Phase 2 and has its tarball queued in Phase 3; with it, every version
\* satisfying some accumulated range.
C13_GreedyHonoured ==
    [][/\ (mrPc = "p3_pkg" /\ mrPc' = "p3_item") =>
            {mrItems'[i] : i \in 1..Len(mrItems')} =
                {TarballPath(mrPkg', v) : v \in Selected(versions[mrPkg'], Versions)}
       /\ (mrPc = "p2_version" /\ mrPc' = "p2_dep") =>
            Head(mrVers) \in Selected(versions[mrPkg], Versions)]_vars


(***************************************************************************)
(* download_metadata: the properties.                                      *)
(***************************************************************************)

\* a worker ends a Metadata request in this step
EndsMetadata(w) ==
    wkPc[w] = "busy" /\ wkPc'[w] # "busy" /\ wkReq[w].kind = "Metadata"

\* the step leaves the files of a package's directory as they are
DiskUnchanged(pkg) ==
    /\ etagFile'[pkg] = etagFile[pkg]
    /\ indexJson'[pkg] = indexJson[pkg]
    /\ linkTo'[pkg] = linkTo[pkg]
    /\ idxFile'[pkg] = idxFile[pkg]

\* C14: a Metadata request whose HEAD succeeds with an ETag e whose file is
\* in the package's directory sends no GET and writes no file; it counts as
\* skipped, not as success; and when index.json.idx is read, its bytes are
\* what the MetaCache holds for the requested package afterwards, unless the
\* cache already held the package (which failing leaves the cache alone).
C14_EtagIdempotent ==
    [][\A w \in Workers :
        (EndsMetadata(w) /\ wkLast'[w].head \in etagFile[wkReq[w].pkg]) =>
            LET l == wkLast'[w]
                pkg == wkReq[w].pkg
            IN
            /\ ~l.get
            /\ DiskUnchanged(pkg)
            /\ bytes' = bytes
            /\ files' = [files EXCEPT !.skipped = @ + 1]
            /\ l.out \in {"OkFalse", "Io"}
            /\ ~idxFile[pkg].exists => l.out = "Io"
            /\ IF l.out = "OkFalse"
               THEN /\ pkg \in DOMAIN mcPosMap'
                    /\ MetaCacheSlice(mcPosMap', mcData', pkg) =
                         IF pkg \in DOMAIN mcPosMap
                         THEN MetaCacheSlice(mcPosMap, mcData, pkg)
                         ELSE idxFile[pkg].data
               ELSE mcPosMap' = mcPosMap /\ mcData' = mcData]_vars

\* in a later run over the same directory, a request found the ETag's file,
\* was counted skipped, and filled the empty MetaCache from index.json.idx
C14_Witness ==
    \E w \in Workers :
        /\ wkLast[w].req.kind = "Metadata" /\ wkLast[w].out = "OkFalse"
        /\ wkLast[w].head \in etagFile[wkLast[w].req.pkg] /\ ~wkLast[w].get
        /\ files = [ProgressPartNew EXCEPT !.total = 1, !.skipped = 1]
        /\ mcPosMap = (wkLast[w].req.pkg :> <<0, 2>>)
        /\ mcData = idxFile[wkLast[w].req.pkg].data


\* C15: a Metadata request whose HEAD fails (no response, or a status that is
\* not a success) goes on to the GET; the branch that sends no GET and reads
\* the cached index is taken only after a HEAD that succeeded with an ETag
\* whose file is in the package's directory.
C15_HeadFailureFetches ==
    [][\A w \in Workers :
        EndsMetadata(w) =>
            /\ wkLast'[w].head = "fail" => wkLast'[w].get
            /\ ~wkLast'[w].get => wkLast'[w].head \in etagFile[wkReq[w].pkg]]_vars


\* the bytes of a set of tarball files
RECURSIVE TarballBytes(_)
TarballBytes(S) ==
    IF S = {} THEN 0
    ELSE LET p == CHOOSE q \in S : TRUE IN Len(tarFile[p].data) + TarballBytes(S \ {p})

\* C16: the MirrorResult mirror() returns is (files.success, bytes.success)
\* read when the downloads of Phase 3 have all finished: no request is queued
\* or in progress, new_packages is the number of tarballs this run downloaded
\* and new_packages_bytes their bytes; the metadata downloads of Phases 1 and
\* 2 are not in it.
C16_ResultIsPhase3 ==
    [][(mrPc = "p3_bytes" /\ mrPc' = "returned") =>
        LET done == {p \in AllPaths : tarFile[p].exists} IN
        /\ InFlight = {}
        /\ mrResult'.kind = "Ok"
        /\ mrResult'.new_packages = files.success
        /\ mrResult'.new_packages_bytes = bytes.success
        /\ mrResult'.new_packages = Cardinality(done)
        /\ mrResult'.new_packages_bytes = TarballBytes(done)]_vars


\* C17: an error of the orchestrator's own ends the run in the phase where it
\* happens, under that phase's variant: DownloadingDependencies is returned
\* with Phases 2 and 3 never started, DownloadingChildDependencies from Phase
\* 2, DownloadingPackages from Phase 3; and main exits with a status other
\* than 0 exactly when mirror returned an error.
C17_ErrorsAbortAtPhase ==
    LET k == mrResult.kind IN
    /\ k = "DownloadingDependencies" => step = 1
    /\ k = "DownloadingChildDependencies" => step = 2
    /\ k = "DownloadingPackages" => step = 3
    /\ k = "Ok" => step = 3
    /\ k # "none" <=> mrPc \in {"returned", "exited"}
    /\ mrPc = "exited" <=> mrResult.exit # <<>>
    /\ mrPc = "exited" => (mrResult.exit[1] # 0 <=> k # "Ok")

\* main has exited with -1 after a document that did not parse ended Phase 2
C17_Witness ==
    /\ mrResult.kind = "DownloadingChildDependencies"
    /\ mrResult.exit = <<-1>>
    /\ step = 2


(***************************************************************************)
(* The functions without state: the properties.                            *)
(***************************************************************************)

\* C18: for every tarball url, package and registry_url (with or without a
\* trailing slash, with or without path segments between the registry prefix
\* and the package name), the url Download::tarball builds from
\* strip_path(url, package, registry_url) is the original url.
C18_TarballUrlRoundTrip ==
    fnCall.op = "tarball" => fnCall.rebuilt = fnCall.url


\* C19: decoding, as MetaCache::get does, the blob write_package_idx builds
\* from an index gives back an index equal to the original
C19_IndexCodecRoundTrip ==
    fnCall.op = "codec" => (fnCall.decoded.ok /\ fnCall.decoded.val = fnCall.idx)

\* a two-version index with tags, tarballs and dependencies has been encoded
\* and decoded into a buffer that held older bytes
C19_Witness ==
    /\ fnCall.op = "codec"
    /\ Len(fnCall.idx.versions) = 2
    /\ fnCall.idx.dist_tags # <<>>
    /\ fnCall.idx.tarballs[1].form = "Short"
    /\ fnCall.idx.deps[2] # <<>>
    /\ fnCall.buf # <<>>
    /\ Len(fnCall.blob) > 8
    /\ fnCall.decoded.ok


\* the order of two values of remaining() as the u64 they are read as: a
\* difference below zero is read as a value above every other
U64Leq(a, b) == IF (a < 0) = (b < 0) THEN a <= b ELSE b < 0

\* a queue() call is entered, and a worker ends a request
QueueCalled == mrReq = NoReq /\ mrReq' # NoReq
WorkerCompletes == \E w \in Workers : wkPc[w] = "busy" /\ wkPc'[w] = "recv"

\* C20: between two resets of the progress counters files.remaining never
\* goes up, whatever queue() calls and worker completions happen
C20_RemainingNonIncreasing ==
    [][files' # ProgressPartNew => U64Leq(Remaining(files'), Remaining(files))]_vars

\* C20, amended: between two resets only queue() calls and worker completions
\* change the file counters; a queue() call adds one to total, so the
\* difference total - success - skipped - failed goes up by one, and a worker
\* completion adds one to success, skipped or failed, so it goes down by one
C20_RemainingByOne ==
    [][/\ QueueCalled => files' = [files EXCEPT !.total = @ + 1]
       /\ WorkerCompletes =>
              (files'.total = files.total /\ Remaining(files') = Remaining(files) - 1)
       /\ (files' # files /\ files' # ProgressPartNew) =>
              (QueueCalled \/ WorkerCompletes)]_vars

\* after a reset, queue() calls have raised the difference and a completion
\* has lowered it, with a request still to be completed
C20_Witness ==
    /\ step >= 2
    /\ files.total >= 2
    /\ files.success + files.skipped + files.failed >= 1
    /\ Remaining(files) >= 1


\* the last download of a package's metadata was cancelled, and no request for
\* the package has ended since
WasCancelled(pkg) ==
    /\ \E u \in Workers : wkLast[u].req.pkg = pkg /\ wkLast[u].out = "Cancelled"
    /\ \A u \in Workers : wkLast[u].req.pkg = pkg => wkLast[u].out = "Cancelled"

\* C21: when the download of a package's metadata was cancelled inside its
\* handler, the same request in the next run, if its HEAD succeeds, sends the
\* GET again, and when it succeeds the package's index is in the MetaCache
C21_CancelledRefetched ==
    [][\A w \in Workers :
        (EndsMetadata(w) /\ wkLast'[w].out # "Cancelled" /\ WasCancelled(wkReq[w].pkg)
            /\ wkLast'[w].head # "fail") =>
            /\ wkLast'[w].get
            /\ wkLast'[w].out \in {"OkTrue", "OkFalse"} =>
                   wkReq[w].pkg \in DOMAIN mcPosMap']_vars


\* C22: a (package, version) pair enters `visited` only when the version is
\* selected for expansion, that is when it satisfies a range accumulated for
\* its package; so a version passed over at one pop of its package can still
\* be expanded at a later one
C22_VisitedOnlySelected ==
    [][\A pv \in visited' \ visited :
          /\ pv[1] \in DOMAIN versions
          /\ RangesSatisfies(versions[pv[1]], pv[2])
          /\ mrPc' = "p2_dep"]_vars


\* C23: when Phase 2 pops a package whose metadata cannot be read, the
\* package is taken out of the range cache (so Phase 3 does not iterate it),
\* and the loop goes on with the next package
C23_MissTombstoned ==
    [][(mrPc = "p2_loop" /\ packages # <<>>
            /\ ~MetadataReadable(packages[Len(packages)])) =>
          /\ packages[Len(packages)] \notin DOMAIN versions'
          /\ mrPc' = "p2_loop"]_vars


\* the metadata requests of a package that are queued or in a worker's hands
MetadataInFlight(pkg) == {r \in InFlight : r.kind = "Metadata" /\ r.pkg = pkg}

\* index.json of a package is the symlink to a document that is there
Linked(pkg) == indexJson[pkg] = "link" /\ linkTo[pkg] \in etagFile[pkg]

\* C24: the swapped-in work list of Phase 2 is popped only after wait_for_idle
\* saw remaining() = 0; at that moment no request is queued or in a worker's
\* hands, and every package whose metadata download left its document has
\* its index.json.idx written and its index in the MetaCache; and no package
\* is expanded while a metadata request for it is queued or being handled
C24_IdleBarrier ==
    /\ [][(mrPc = "p2_wait" /\ mrPc' # "p2_wait") =>
            /\ mrPc' = "p2_loop"
            /\ Remaining(files) = 0
            /\ InFlight = {}
            /\ \A k \in Keys : (mrQueued[k] > 0 /\ Linked(k)) =>
                    (idxFile[k].exists /\ k \in DOMAIN mcPosMap)]_vars
    /\ [][(mrPc = "p2_loop" /\ mrPc' = "p2_version") => MetadataInFlight(mrPkg') = {}]_vars

\* a package that a dependency brought in is being expanded in the second
\* round of Phase 2, from the document its metadata download left
C24_Witness ==
    /\ mrPc = "p2_version"
    /\ mrPkg = NumKeys
    /\ mrQueued[NumKeys] = 1
    /\ Linked(NumKeys)
    /\ step = 2


\* populate_child_deps processes a dependency it follows
ProcessStep == mrPc = "p2_dep" /\ mrDeps # <<>> /\ mrDeps' = Tail(mrDeps)

\* C25: at each dependency Phase 2 follows the range cache insert comes first;
\* a Metadata download of the dependency is queued exactly when the insert
\* answered package_is_new; the next round's work list holds exactly the
\* packages for which an insert of this round answered package_is_new or
\* range_is_new (the one whose queue() call is still at its send is pushed
\* when the send returns), and holds no package twice
C25_ProcessStep ==
    /\ [][ProcessStep =>
            LET d == Head(mrDeps)
                res == MirrorInsert(versions, d.dep, d.range)
            IN
            /\ versions' = res.map
            /\ QueueCalled <=> res.package_is_new
            /\ QueueCalled => (mrReq'.kind = "Metadata" /\ mrReq'.pkg = d.dep)]_vars
    /\ [](/\ \A i, j \in 1..Len(new_packages) : new_packages[i] = new_packages[j] => i = j
          /\ {new_packages[i] : i \in 1..Len(new_packages)} =
                IF mrPc = "p2_send" THEN mrFlagged \ {mrReq.pkg} ELSE mrFlagged)

\* in one round a new package was queued and pushed, and a second insert
\* for it with a new range left the work list as it was
C25_Witness ==
    /\ mrPc = "p2_dep"
    /\ new_packages = <<NumKeys>>
    /\ mrFlagged = {NumKeys}
    /\ mrQueued[NumKeys] = 1
    /\ Len(versions[NumKeys]) = 2


\* C26: of one dependency entry Phase 2 processes: for an alias
\* npm:<name>@<range>, the pair (name, range); for a tag the document's
\* dist-tags resolve, the dependency at exactly the resolved version; for a
\* range, the dependency at that range; for anything else, nothing
C26_DependencyDispatch ==
    fnCall.op = "deps" =>
        LET spec == fnCall.spec IN
        fnCall.processed =
            CASE spec.form = "SubDep" -> <<[package |-> spec.package, range |-> spec.range]>>
              [] spec.form = "Tag" ->
                    IF spec.tag \in DOMAIN fnCall.tags
                    THEN <<[package |-> fnCall.dep,
                            range |-> [lo |-> fnCall.tags[spec.tag],
                                       hi |-> fnCall.tags[spec.tag]]]>>
                    ELSE <<>>
              [] spec.form = "Range" -> <<[package |-> fnCall.dep, range |-> spec.range]>>
              [] spec.form = "Other" -> <<>>


\* the requests counted in files.total and not yet in success, skipped or
\* failed: in the channel, in a worker's hands, or in a queue() call between
\* its inc_total and the return of its send
Pending ==
    Len(queue) + Cardinality({w \in Workers : wkPc[w] = "busy"})
        + (IF pdPc = "send" THEN 1 ELSE 0)

\* C27: the channel never holds more than its capacity; a queue() call
\* returns only by putting its request in a channel that was not full; every
\* queue() call adds one to files.total, once and before the request is in
\* the channel, so that remaining() is exactly the number of requests
\* counted and not completed, and no completion is counted ahead of its total
C27_BoundedQueue ==
    /\ [](Len(queue) <= QueueCap)
    /\ [](Remaining(files) = Pending)
    /\ [][(pdPc = "idle" /\ pdPc' = "send") =>
            (files' = [files EXCEPT !.total = @ + 1] /\ queue' = queue)]_vars
    /\ [][(pdPc = "send" /\ pdPc' # "send") =>
            /\ Len(queue) < QueueCap
            /\ queue' = Append(queue, pdReq)
            /\ files' = files]_vars

\* a queue() call is past its inc_total and waiting at its send, the channel
\* being full of requests no worker has received yet
C27_Witness ==
    /\ pdPc = "send"
    /\ Len(queue) = QueueCap
    /\ files.total = QueueCap + 1
    /\ Remaining(files) = QueueCap + 1


\* C28: after a Metadata download that succeeded, either (the response had an
\* ETag e) index.json is a symlink to e, the document e is in the package's
\* directory, and the document an earlier symlink pointed to, if another, is
\* no longer there; or (no ETag) the document is index.json itself and no
\* symlink or ETag-named document was made
C28_MetadataDestination ==
    [][\A w \in Workers :
        (EndsMetadata(w) /\ wkLast'[w].out = "OkTrue") =>
            LET pkg == wkReq[w].pkg IN
            \/ /\ indexJson'[pkg] = "link"
               /\ linkTo'[pkg] \in etagFile'[pkg]
               /\ (indexJson[pkg] = "link" /\ linkTo[pkg] # linkTo'[pkg]) =>
                      linkTo[pkg] \notin etagFile'[pkg]
            \/ /\ indexJson'[pkg] = "file"
               /\ etagFile'[pkg] = etagFile[pkg]
               /\ linkTo'[pkg] = linkTo[pkg]]_vars


\* a worker ends a Tarball request
EndsTarball(w) ==
    wkPc[w] = "busy" /\ wkPc'[w] # "busy" /\ wkReq[w].kind = "Tarball"

\* C29: a Tarball request whose target file is there when it is handled
\* takes nothing from the network, leaves the file as it is, whatever it
\* holds, and is counted skipped; and a request whose GET is answered with a
\* status that is not a success leaves no file at its target
C29_TarballSkip ==
    [][\A w \in Workers :
        EndsTarball(w) =>
            LET l == wkLast'[w]
                p == wkReq[w].path
            IN
            /\ tarFile[p].exists =>
                  /\ l.out = "OkFalse"
                  /\ l.streamed = <<>> /\ ~l.got.some
                  /\ tarFile'[p] = tarFile[p]
                  /\ bytes' = bytes
                  /\ files' = [files EXCEPT !.skipped = @ + 1]
            /\ l.out \in {"Download404", "DownloadOther"} =>
                  (~tarFile[p].exists /\ ~tarFile'[p].exists)]_vars

\* a download with a checksum broke off and left part of the body, and a
\* later request for the same target was skipped over the file, which does
\* not have the digest asked for
C29_Witness ==
    \E w, v \in Workers :
        /\ wkLast[v].req.kind = "Tarball" /\ wkLast[v].out \in {"Reqwest", "Io"}
        /\ wkLast[w].req.kind = "Tarball" /\ wkLast[w].out = "OkFalse"
        /\ wkLast[w].req.path = wkLast[v].req.path
        /\ wkLast[w].req.checksum.some
        /\ tarFile[wkLast[w].req.path].exists
        /\ Digest(tarFile[wkLast[w].req.path].data) # wkLast[w].req.checksum.digest
        /\ files.skipped = 2


\* the Tarball requests for one target path that are in the channel, in a
\* worker's hands or in a queue() call that has not sent yet
TarballCopies(p) ==
    Cardinality({i \in 1..Len(queue) : queue[i].kind = "Tarball" /\ queue[i].path = p})
    + Cardinality({w \in Workers :
                      wkPc[w] = "busy" /\ wkReq[w].kind = "Tarball" /\ wkReq[w].path = p})
    + (IF mrReq # NoReq /\ mrReq.kind = "Tarball" /\ mrReq.path = p THEN 1 ELSE 0)

\* C30: in one run no target path has two Tarball requests queued for it,
\* so no two requests for one path are pending or being handled at a time;
\* the requests Phase 3 makes for a package are one per version with a
\* tarball URL that some accumulated range allows, however many ranges allow it
C30_TarballQueuedOnce ==
    /\ [](\A p \in AllPaths : mrSent[p] <= 1 /\ TarballCopies(p) <= 1)
    /\ [][(mrPc = "p3_pkg" /\ mrPc' = "p3_item") =>
            /\ \A i, j \in 1..Len(mrItems') : mrItems'[i] = mrItems'[j] => i = j
            /\ {mrItems'[i] : i \in 1..Len(mrItems')}
                 = {TarballPath(mrPkg', v) : v \in {u \in 0..MaxVer :
                        /\ HasTarball(mrPkg', u)
                        /\ \E k \in 1..Len(versions[mrPkg']) :
                              RangesSatisfies(<<versions[mrPkg'][k]>>, u)}}]_vars

\* the run is over, a package has two accumulated ranges that allow the same
\* version, and one request was queued for that version's tarball
C30_Witness ==
    /\ mrPc = "returned"
    /\ \E pkg \in DOMAIN versions, v \in 0..MaxVer :
        /\ \E j, k \in 1..Len(versions[pkg]) :
              /\ j # k
              /\ RangesSatisfies(<<versions[pkg][j]>>, v)
              /\ RangesSatisfies(<<versions[pkg][k]>>, v)
        /\ mrSent[TarballPath(pkg, v)] = 1


\* the step of download_packages that takes the next package of the map
P3Takes(pkg) == mrPc = "p3_pkg" /\ pkg \in mrLeft /\ mrLeft' = mrLeft \ {pkg}

\* C31: in Phase 3 a package whose document cannot be read or parsed is
\* passed over and the loop goes on to the next package, a selected version
\* with no tarball URL is passed over and the loop goes on to the next
\* version, neither makes the phase return an error, and the loop ends only
\* when every package of the map was taken and every tarball found queued
C31_Phase3Skips ==
    /\ [][\A pkg \in Keys :
            P3Takes(pkg) =>
                IF MetadataReadable(pkg) /\ indexJson[pkg] # "junk"
                THEN /\ mrPc' = "p3_item" /\ mrPkg' = pkg
                     /\ {mrItems'[i] : i \in 1..Len(mrItems')}
                          = {TarballPath(pkg, v) : v \in {u \in 0..MaxVer :
                                /\ RangesSatisfies(versions[pkg], u)
                                /\ HasTarball(pkg, u)}}
                ELSE /\ mrPc' = "p3_pkg" /\ mrResult' = mrResult
                     /\ mrSent' = mrSent /\ files' = files]_vars
    /\ [][(mrPc = "p3_item" /\ mrPc' # "p3_item") =>
            IF mrItems = <<>> THEN mrPc' = "p3_pkg" /\ mrResult' = mrResult
            ELSE /\ mrPc' = "p3_send" /\ mrSent'[Head(mrItems)] = mrSent[Head(mrItems)] + 1
                 /\ mrItems' = Tail(mrItems)]_vars
    /\ [][(mrPc = "p3_pkg" /\ mrPc' \notin {"p3_pkg", "p3_item"}) =>
            (mrLeft = {} /\ mrPc' = "p3_wait" /\ mrResult' = mrResult)]_vars
    /\ [](mrPc \in {"p3_pkg", "p3_item", "p3_send", "p3_wait"} => mrResult.kind = "none")

\* the run returned Ok; package 2 was in the map and had no document, so
\* nothing was queued for it; a selected version of another package had no
\* tarball URL and nothing was queued for it; and the tarballs of the other
\* selected versions were queued
C31_Witness ==
    /\ mrPc = "returned" /\ mrResult.kind = "Ok"
    /\ 2 \in DOMAIN versions /\ ~MetadataReadable(2)
    /\ \A v \in 0..MaxVer : mrSent[TarballPath(2, v)] = 0
    /\ NumKeys \in DOMAIN versions /\ RangesSatisfies(versions[NumKeys], MaxVer)
    /\ mrSent[TarballPath(NumKeys, MaxVer)] = 0
    /\ mrSent[TarballPath(NumKeys, 0)] = 1
    /\ \A v \in 0..MaxVer : mrSent[TarballPath(1, v)] = 1


(***************************************************************************)
(* insert under concurrent callers, against its sequential executions.     *)
(***************************************************************************)

\* the list a package has after insert was called for these ranges one call
\* after the other, starting from `acc`
RECURSIVE SeqAccumulate(_, _)
SeqAccumulate(acc, rs) ==
    IF rs = <<>> THEN acc
    ELSE SeqAccumulate(IF \E i \in 1..Len(acc) : AllowsAll(Head(rs), acc[i])
                       THEN acc ELSE Append(acc, Head(rs)),
                       Tail(rs))

\* the ranges a package has accumulated
Accumulated(pkg) ==
    IF pkg \in DOMAIN versions
    THEN {versions[pkg][i] : i \in 1..Len(versions[pkg])} ELSE {}

\* C32: concurrent inserts only add: as long as remove was not called, the
\* accumulated ranges of a package contain all the ranges that the completed
\* insert calls made one after the other, in some order, would have
\* accumulated, and for each completed insert its range or a range it allows
C32_InsertOverApproximates ==
    \A pkg \in Pkgs :
        (pkg \notin rcRemoveCalled /\ rcInserted[pkg] # {}) =>
            /\ \E order \in Perms(rcInserted[pkg]) :
                  LET acc == SeqAccumulate(<<>>, order)
                  IN  {acc[i] : i \in 1..Len(acc)} \subseteq Accumulated(pkg)
            /\ \A r \in rcInserted[pkg] :
                  \E q \in Accumulated(pkg) : AllowsAll(r, q)

\* two inserts of one range ran side by side on a package that was not there,
\* both were answered range_is_new, and the list holds the range twice: one
\* more entry than either sequential order leaves
C32_Witness ==
    /\ AllIdle /\ rcRemoveCalled = {}
    /\ \A p \in Procs : rcRes[p].op = "insert" /\ rcRes[p].range_is_new
    /\ \E pkg \in DOMAIN versions :
          /\ Len(versions[pkg]) = 2
          /\ versions[pkg][1] = versions[pkg][2]
          /\ rcInserted[pkg] = {versions[pkg][1]}


\* C33: a dependency string that parses as a range is a Range; else one
\* that is blank or has one of the prefixes of the Other test is Other; else
\* one of the form npm:<rest>, where the part of <rest> after its last '@'
\* parses as a range, is a SubDep of the part before that '@' and that range;
\* everything else is a Tag
C33_ClassificationPrecedence ==
    fnCall.op = "visit" =>
        LET value == fnCall.value
            blank == fnCall.blank
            at == {i \in 1..Len(Tail(value)) : Tail(value)[i] = "@"}
            sub == IF at = {} THEN NoSplit
                   ELSE SplitAt(Tail(value), CHOOSE i \in at : \A j \in at : i >= j)
        IN  fnCall.out =
              IF RangeFromStr(value, blank) THEN DepRange(value)
              ELSE IF Trim(value) = <<>> \/ StartsWith(value, "file:") THEN DepOther
              ELSE IF StartsWith(value, "npm:") /\ sub.some /\ RangeFromStr(sub.right, blank)
                   THEN DepSubDep(sub.left, sub.right)
                   ELSE DepTag


\* a request is queued or in a worker's hands, or in a queue() call that has
\* not sent yet
Undrained == InFlight # {} \/ mrReq # NoReq

\* C34: under a fair scheduler every request queued is handled and counted,
\* remaining() comes back to zero whenever it is not zero, and each wait of
\* the orchestrator returns
C34_DrainLiveness ==
    /\ Undrained ~> ~Undrained
    /\ (Remaining(files) # 0) ~> (Remaining(files) = 0)
    /\ \A at \in {"p1_wait", "p2_wait", "p3_wait"} : (mrPc = at) ~> (mrPc # at)


\* the orchestrator is inside the loop of download_child_metadata
InPhase2 == mrPc \in {"p2_loop", "p2_version", "p2_dep", "p2_send", "p2_wait"}

\* C35: under a fair scheduler download_child_metadata comes to its end; it
\* returns Ok only when it has found the current and the next round's work
\* list both empty; and a version of a package is expanded only if it was
\* not expanded before
C35_Phase2Terminates ==
    /\ InPhase2 ~> ~InPhase2
    /\ [][(InPhase2 /\ mrPc' = "p2_done") =>
            (packages = <<>> /\ new_packages = <<>>)]_vars
    /\ [][(mrPc = "p2_version" /\ mrPc' = "p2_dep") =>
            <<mrPkg, Head(mrVers)>> \notin visited]_vars


\* C36: in every state of a mirror run files.total is at least
\* files.success + files.skipped + files.failed, so the subtraction of
\* remaining() does not go below zero
C36_CountersWellFormed ==
    files.total >= files.success + files.skipped + files.failed

====
